---- MODULE Spec2Model ----
(***************************************************************************)
(* Model of base_cacheable_class: the key codec, the cache decorator, the  *)
(* invalidation engine, the cache-clearing wrapper and the in-process      *)
(* storage backend (src/base_cacheable_class/cache/in_memory).             *)
(*                                                                         *)
(* Text (keys, patterns) is a sequence of one-character strings, so that   *)
(* key rendering and regular-expression matching are computed as Python    *)
(* computes them.                                                          *)
(***************************************************************************)
EXTENDS Integers, Sequences, FiniteSets, TLC

VARIABLES cache, now, frames, log, _instance

vars == <<cache, now, frames, log, _instance>>

(***************************************************************************)
(* Bounds of the model.                                                    *)
(***************************************************************************)
NTasks == 2
MaxTime == 2
MaxRaceTime == 1
MaxCalls == 2

Tasks == 1..NTasks

(***************************************************************************)
(* Python values and their renderings.                                     *)
(***************************************************************************)
None == "None"

\* results for which bool(result) is False without their being None
Zero == "0"
PyFalse == "False"
EmptyStr == "''"
EmptyList == "[]"
Falsy == {Zero, PyFalse, EmptyStr, EmptyList}

StrVal(s) == [t |-> "str", s |-> s]
IntVal(s) == [t |-> "int", s |-> s]

\* an instance of a service class that defines no __repr__, at the address
\* addr: object.__repr__ gives "<Service object at 0x...>", here "<S@addr>"
ObjVal(addr) == [t |-> "obj", s |-> <<"<", "S", "@", addr, ">">>]

\* str(v): the text of a string, the digits of an integer
Str(v) == v.s

\* repr that leaves the quotes of a string out
ReprUnquoted(v) == v.s

\* repr(v), which str() of a tuple or of a dict applies to its elements
Repr(v) == IF v.t = "str" THEN <<"'">> \o v.s \o <<"'">> ELSE v.s

RECURSIVE JoinReprs(_)
JoinReprs(vs) ==
    IF Len(vs) = 0 THEN <<>>
    ELSE IF Len(vs) = 1 THEN Repr(vs[1])
    ELSE Repr(vs[1]) \o <<",", " ">> \o JoinReprs(Tail(vs))

\* a tuple rendered without the comma that marks a single element
TupleStrNoComma(args) == <<"(">> \o JoinReprs(args) \o <<")">>

\* str(args) of a tuple: "()", "(x,)", "(x, y)"
TupleStr(args) ==
    IF Len(args) = 0 THEN <<"(", ")">>
    ELSE IF Len(args) = 1 THEN <<"(">> \o Repr(args[1]) \o <<",", ")">>
    ELSE <<"(">> \o JoinReprs(args) \o <<")">>

\* one 'name': value item of str(kwargs); kw is <<name, value>>
ItemStr(kw) == <<"'">> \o kw[1] \o <<"'", ":", " ">> \o Repr(kw[2])

RECURSIVE JoinItems(_)
JoinItems(kws) ==
    IF Len(kws) = 0 THEN <<>>
    ELSE IF Len(kws) = 1 THEN ItemStr(kws[1])
    ELSE ItemStr(kws[1]) \o <<",", " ">> \o JoinItems(Tail(kws))

\* a rendering that puts the item named 'k' before the other one
DictStrKeyFirst(kwargs) ==
    IF Len(kwargs) = 2 /\ kwargs[2][1] = <<"k">>
    THEN <<"{">> \o JoinItems(<<kwargs[2], kwargs[1]>>) \o <<"}">>
    ELSE <<"{">> \o JoinItems(kwargs) \o <<"}">>

\* str(kwargs) of a dict, items in insertion order
DictStr(kwargs) == <<"{">> \o JoinItems(kwargs) \o <<"}">>

\* a key built without the object the method was called on
key_builder_unbound(func_name, args, kwargs) ==
    LET rest == IF Len(args) > 0 /\ args[1].t = "obj" THEN Tail(args) ELSE args
        kwarg_str == IF Len(kwargs) > 0 THEN DictStr(kwargs) ELSE <<"{", "}">>
    IN  func_name \o <<":">> \o TupleStr(rest) \o <<":">> \o kwarg_str

\* InMemoryCacheDecorator.key_builder
key_builder(func_name, args, kwargs) ==
    LET arg_str == TupleStr(args)
        kwarg_str == IF Len(kwargs) > 0 THEN DictStr(kwargs) ELSE <<"{", "}">>
    IN  func_name \o <<":">> \o arg_str \o <<":">> \o kwarg_str

(***************************************************************************)
(* Regular expressions, as far as the invalidation patterns use them: a    *)
(* pattern is a sequence of elements: a literal character, "." for any     *)
(* one character, ".*" or "\s*".                                           *)
(***************************************************************************)
Lit(c) == [t |-> "lit", c |-> c]
Dot == [t |-> "dot", c |-> ""]
AnyStar == [t |-> "any", c |-> ""]
WsStar == [t |-> "ws", c |-> ""]

RECURSIVE Lits(_)
Lits(s) == IF Len(s) = 0 THEN <<>> ELSE <<Lit(s[1])>> \o Lits(Tail(s))

\* re.compile of text interpolated into a pattern as it is: a "." in it is
\* the wildcard, every other character the model uses stands for itself
RECURSIVE ReCompile(_)
ReCompile(s) ==
    IF Len(s) = 0 THEN <<>>
    ELSE <<IF s[1] = "." THEN Dot ELSE Lit(s[1])>> \o ReCompile(Tail(s))

IsStar(e) == e.t \in {"any", "ws"}

\* positions reachable from S by skipping starred elements
Closure(p, S) ==
    {j \in 1..(Len(p) + 1) :
        \E i \in S : i <= j /\ \A k \in i..(j - 1) : IsStar(p[k])}

\* positions after reading the character c
Step(p, S, c) ==
    Closure(p,
        {i + 1 : i \in {j \in S : j <= Len(p) /\ p[j].t = "lit" /\ p[j].c = c}}
        \cup {i + 1 : i \in {j \in S : j <= Len(p) /\ p[j].t = "dot"}}
        \cup {i \in S : i <= Len(p) /\ p[i].t = "any"}
        \cup {i \in S : i <= Len(p) /\ p[i].t = "ws" /\ c = " "})

RECURSIVE MatchFrom(_, _, _, _)
MatchFrom(p, s, k, S) ==
    IF (Len(p) + 1) \in S THEN TRUE
    ELSE IF k > Len(s) \/ S = {} THEN FALSE
    ELSE MatchFrom(p, s, k + 1, Step(p, S, s[k]))

\* re.compile(p).match(s): p matches a prefix of s
ReMatch(p, s) == MatchFrom(p, s, 1, Closure(p, {1}))

(***************************************************************************)
(* The invalidation pattern (InMemoryCacheDecorator.invalidate).           *)
(* param_mapping is a sequence of <<target_param, source_param>> pairs in  *)
(* dict order; None and {} are both <<>>.  kwargs is a sequence of         *)
(* <<name, value>> pairs in the order the caller supplied them.            *)
(***************************************************************************)
HasKw(kwargs, name) == \E i \in 1..Len(kwargs) : kwargs[i][1] = name

KwValue(kwargs, name) ==
    kwargs[CHOOSE i \in 1..Len(kwargs) : kwargs[i][1] = name][2]

\* {target_param: kwargs[source_param] for ... if source_param in kwargs}
RECURSIVE mapped_kwargs(_, _)
mapped_kwargs(param_mapping, kwargs) ==
    IF Len(param_mapping) = 0 THEN <<>>
    ELSE LET m == param_mapping[1]
             rest == mapped_kwargs(Tail(param_mapping), kwargs)
         IN  IF HasKw(kwargs, m[2])
             THEN <<<<m[1], KwValue(kwargs, m[2])>>>> \o rest
             ELSE rest

\* rf".*'{k}':\s*'{v!s}'"
kwargs_pattern(k, v) ==
    <<AnyStar, Lit("'")>> \o Lits(k) \o <<Lit("'"), Lit(":"), WsStar, Lit("'")>>
        \o ReCompile(Str(v)) \o <<Lit("'")>>

\* ".*".join(kwargs_patterns)
RECURSIVE JoinPatterns(_)
JoinPatterns(mk) ==
    IF Len(mk) = 0 THEN <<>>
    ELSE IF Len(mk) = 1 THEN kwargs_pattern(mk[1][1], mk[1][2])
    ELSE kwargs_pattern(mk[1][1], mk[1][2]) \o <<AnyStar>> \o JoinPatterns(Tail(mk))

\* a head that accepts only the keys of calls on the object <S@1>
PatternHeadOfService(target_func_name) ==
    Lits(target_func_name) \o Lits(<<":", "(", "<", "S", "@", "1", ">">>)
        \o <<AnyStar, Lit(")"), Lit(":"), Lit("{")>>

\* rf"{target_func_name}:\(.*\):{{"
PatternHead(target_func_name) ==
    Lits(target_func_name) \o <<Lit(":"), Lit("("), AnyStar, Lit(")"), Lit(":"), Lit("{")>>

\* a pattern that takes no account of the mapping
InvalidationPatternOfName(target_func_name, param_mapping, kwargs) ==
    PatternHead(target_func_name) \o <<AnyStar, Lit("}")>>

\* a pattern that selects no key at all when a mapping is given and the
\* call passes none of its source parameters by keyword
InvalidationPatternStrict(target_func_name, param_mapping, kwargs) ==
    IF Len(param_mapping) > 0
    THEN IF mapped_kwargs(param_mapping, kwargs) = <<>>
         THEN PatternHead(target_func_name) \o <<Lit("}"), Lit("{")>>
         ELSE PatternHead(target_func_name)
                \o JoinPatterns(mapped_kwargs(param_mapping, kwargs))
                \o <<AnyStar, Lit("}")>>
    ELSE PatternHead(target_func_name) \o <<AnyStar, Lit("}")>>

InvalidationPattern(target_func_name, param_mapping, kwargs) ==
    IF Len(param_mapping) > 0
    THEN PatternHead(target_func_name)
            \o JoinPatterns(mapped_kwargs(param_mapping, kwargs))
            \o <<AnyStar, Lit("}")>>
    ELSE PatternHead(target_func_name) \o <<AnyStar, Lit("}")>>

(***************************************************************************)
(* The in-process backend (InMemoryCache).  The table is a sequence of     *)
(* items in dict (insertion) order; an optional number is <<>> for None    *)
(* and <<n>> for n.                                                        *)
(***************************************************************************)
NoInt == <<>>

CacheItem(key, value, expire_at) ==
    [key |-> key, value |-> value, expire_at |-> expire_at]

IndexOf(c, key) ==
    IF \E i \in 1..Len(c) : c[i].key = key
    THEN CHOOSE i \in 1..Len(c) : c[i].key = key
    ELSE 0

RemoveAt(c, i) == SubSeq(c, 1, i - 1) \o SubSeq(c, i + 1, Len(c))

\* an item still served at the instant it expires
IsLiveInclusive(item, t) == item.expire_at = NoInt \/ t <= item.expire_at[1]

\* item.expire_at is None or time.time() < item.expire_at
IsLive(item, t) == item.expire_at = NoInt \/ t < item.expire_at[1]

\* an expiry that treats no ttl as a ttl of one second
ExpireAtOneSecond(ttl, t) == IF ttl # NoInt THEN <<t + ttl[1]>> ELSE <<t + 1>>

\* expire_at = time.time() + ttl if ttl is not None else None
ExpireAt(ttl, t) == IF ttl # NoInt THEN <<t + ttl[1]>> ELSE NoInt

\* set that loses the item
cache_set_dropped(c, key, value, ttl, t) == c

\* set that keeps the item already stored under the key
cache_set_first(c, key, value, ttl, t) ==
    IF IndexOf(c, key) = 0 THEN Append(c, CacheItem(key, value, ExpireAt(ttl, t)))
    ELSE c

\* InMemoryCache.set
cache_set(c, key, value, ttl, t) ==
    LET expire_at == ExpireAt(ttl, t)
        i == IndexOf(c, key)
    IN  IF i = 0 THEN Append(c, CacheItem(key, value, expire_at))
        ELSE [c EXCEPT ![i] = CacheItem(key, value, expire_at)]

\* get that pushes the expiry of the item it returns one second further
cache_get_sliding(c, key, t) ==
    LET i == IndexOf(c, key)
    IN  IF i = 0 THEN [value |-> None, cache |-> c]
        ELSE IF IsLive(c[i], t)
        THEN [value |-> c[i].value,
              cache |-> IF c[i].expire_at = NoInt THEN c
                        ELSE [c EXCEPT ![i].expire_at = <<c[i].expire_at[1] + 1>>]]
        ELSE [value |-> None, cache |-> RemoveAt(c, i)]

\* InMemoryCache.get: the value returned and the table left behind
cache_get(c, key, t) ==
    LET i == IndexOf(c, key)
    IN  IF i = 0 THEN [value |-> None, cache |-> c]
        ELSE IF IsLive(c[i], t) THEN [value |-> c[i].value, cache |-> c]
        ELSE [value |-> None, cache |-> RemoveAt(c, i)]

\* get_keys that stops at the first matching key
cache_get_keys_first(c, pattern) ==
    LET I == {i \in 1..Len(c) : ReMatch(pattern, c[i].key)}
    IN  IF I = {} THEN <<>> ELSE <<c[CHOOSE i \in I : \A j \in I : i <= j].key>>

\* InMemoryCache.get_keys(pattern), pattern given
RECURSIVE cache_get_keys(_, _)
cache_get_keys(c, pattern) ==
    IF Len(c) = 0 THEN <<>>
    ELSE IF ReMatch(pattern, c[1].key)
         THEN <<c[1].key>> \o cache_get_keys(Tail(c), pattern)
         ELSE cache_get_keys(Tail(c), pattern)

\* delete that removes nothing
cache_delete_kept(c, key) == c

\* InMemoryCache.delete
cache_delete(c, key) ==
    LET i == IndexOf(c, key) IN IF i = 0 THEN c ELSE RemoveAt(c, i)

\* clear that removes only the oldest item
cache_clear_oldest(c) == IF Len(c) = 0 THEN c ELSE Tail(c)

\* InMemoryCache.clear
cache_clear(c) == <<>>

\* InMemoryCache.exists: the answer and the table left behind
cache_exists(c, key, t) ==
    LET i == IndexOf(c, key)
    IN  IF i = 0 THEN [value |-> FALSE, cache |-> c]
        ELSE IF IsLive(c[i], t) THEN [value |-> TRUE, cache |-> c]
        ELSE [value |-> FALSE, cache |-> RemoveAt(c, i)]

\* an optional pattern: NoPattern is None, <<r>> is the pattern r
NoPattern == <<>>

\* InMemoryCache.get_keys(pattern=None)
get_keys(c, pattern) ==
    IF pattern = NoPattern THEN [i \in 1..Len(c) |-> c[i].key]
    ELSE cache_get_keys(c, pattern[1])

\* InMemoryCache.get_keys_regex(target_func_name, pattern=None)
get_keys_regex(c, target_func_name, pattern) ==
    IF pattern = NoPattern THEN [i \in 1..Len(c) |-> c[i].key]
    ELSE cache_get_keys(c, pattern[1])

\* a constructor that builds a new object with an empty table every time
InMemoryCache_fresh(instance, c) ==
    [instance |-> instance + 1, cache |-> <<>>]

\* InMemoryCache.__new__: _instance (0 is None) and the table afterwards;
\* the object returned is the new _instance
InMemoryCache(instance, c) ==
    IF instance = 0 THEN [instance |-> 1, cache |-> <<>>]
    ELSE [instance |-> instance, cache |-> c]

(***************************************************************************)
(* Calls.  Every task runs one decorated call at a time; frames[p] holds   *)
(* the locals of the wrapper that task p is running and what the call has  *)
(* done so far.  A call that has returned or raised is appended to log.    *)
(*                                                                         *)
(*   call    the call being served                                         *)
(*   read    what cache.get did: "none", "hit", "miss", "raised"           *)
(*   outs    the outcome of every invocation of the wrapped function, in   *)
(*           order: a value, None, or Raise                                *)
(*   sets    the number of cache.set calls made                            *)
(*   bok, bfail   backend calls that returned / that raised                *)
(*   err     the error caught by the wrapper's except clause: "no", "op"   *)
(*           for the wrapped function's own, "backend"                     *)
(*   ret, raised  what the caller got: a value (raised = "no"), or an      *)
(*           error, "op" for the wrapped function's own                    *)
(*   tget, tset   the time of cache.get, of the completed cache.set        *)
(*   exp     expire_at of the item read on a hit or written by set         *)
(*   pre     the keys in the table when the call started                   *)
(*   matched, deleted   the keys enumerated / deleted, per invalidation    *)
(*   seen    the number of invalidating calls that had completed when the  *)
(*           wrapped function was last invoked                             *)
(***************************************************************************)
Raise == "Raise"

\* InMemoryCacheDecorator(cache_, default_ttl=1)
default_ttl == 1

\* a call: the wrapper kind, the decorated function's name and decoration
\* (ttl of cache, the stack invs of invalidate), and the arguments passed
Call(kind, func, args, kwargs, ttl, invs) ==
    [kind |-> kind, func |-> func, args |-> args, kwargs |-> kwargs,
     ttl |-> ttl, invs |-> invs]

NoCall == Call("idle", <<>>, <<>>, <<>>, NoInt, <<>>)

IdleFrame ==
    [kind |-> "idle", pc |-> "idle", call |-> NoCall,
     key |-> <<>>, ttl |-> NoInt, result |-> None, level |-> 0,
     keys |-> <<>>, read |-> "none", outs |-> <<>>, sets |-> 0, bok |-> 0,
     bfail |-> 0, err |-> "no", ret |-> None, raised |-> "no", tget |-> 0, tset |-> NoInt,
     exp |-> NoInt, pre |-> {}, matched |-> <<>>, deleted |-> <<>>,
     seen |-> 0]

Keys(c) == {c[i].key : i \in 1..Len(c)}

Active(p) == frames[p].pc # "idle"

\* the calls made so far are the first calls of the script s
Follows(s) ==
    /\ Len(log) < Len(s)
    /\ \A i \in 1..Len(log) : log[i].call = s[i]

\* task p may make a call.  Tasks have no identity, so a new call runs in
\* the first idle one.
CanStart(U, p) ==
    /\ p \in U.tasks
    /\ ~Active(p)
    /\ \A q \in U.tasks : q < p => Active(q)

\* the calls a caller may make now: at most U.maxCalls of U.free in any
\* order, or the next call of one of U.scripts, the one before it awaited
FreeCalls(U) ==
    IF Len(log) + Cardinality({q \in Tasks : Active(q)}) < U.maxCalls
    THEN U.free ELSE {}

ScriptCalls(U) ==
    IF \E q \in Tasks : Active(q) THEN {}
    ELSE {s[Len(log) + 1] : s \in {t \in U.scripts : Follows(t)}}

\* those of one wrapper kind
CallsOf(U, kind) == {d \in FreeCalls(U) \cup ScriptCalls(U) : d.kind = kind}

\* the service objects: bad_service never ran BaseCacheableClass.__init__
service == ObjVal("1")
service2 == ObjVal("2")
bad_service == ObjVal("3")

\* a call of a method decorated through BaseCacheableClass: self comes first
IsMethod(d) == Len(d.args) > 0 /\ d.args[1].t = "obj"

\* hasattr(self, "_cache_decorator") in the wrappers of BaseCacheableClass;
\* a function decorated by the decorator object itself has no such test
Initialised(d) == IsMethod(d) => d.args[1] # bad_service

\* the number of calls wrapped by invalidate among the first n completed
Invalidations(n) == Cardinality({i \in 1..n : log[i].kind = "invalidate"})

\* the call of task p returns or raises: its frame goes to the log
Complete(p, f) ==
    /\ frames' = [frames EXCEPT ![p] = IdleFrame]
    /\ log' = Append(log, [f EXCEPT !.pc = "done"])

Continue(p, f) ==
    /\ frames' = [frames EXCEPT ![p] = f]
    /\ log' = log

(***************************************************************************)
(* InMemoryCacheDecorator.__call__: the cache wrapper.                     *)
(***************************************************************************)
\* the decoration's ttl ignored
current_ttl_default(ttl) == <<default_ttl>>

\* line 27: current_ttl = ttl if ttl is not None else self.default_ttl
current_ttl(ttl) == IF ttl # NoInt THEN ttl ELSE <<default_ttl>>

\* lines 25-32: key, current_ttl, await cache.get
WrapperGet(U, p) ==
    /\ CanStart(U, p)
    /\ \E d \in CallsOf(U, "cache"), fault \in U.faults :
        LET _key == key_builder(d.func, d.args, d.kwargs)
            f == [IdleFrame EXCEPT !.kind = "cache", !.call = d, !.key = _key,
                     !.ttl = current_ttl(d.ttl), !.tget = now, !.pre = Keys(cache)]
            g == cache_get(cache, _key, now)
            i == IndexOf(cache, _key)
        IN  /\ Initialised(d)
            /\ IF fault
               THEN /\ cache' = cache
                    /\ Continue(p, [f EXCEPT !.pc = "except", !.read = "raised",
                                       !.bfail = 1, !.err = "backend"])
               ELSE /\ cache' = g.cache
                    /\ IF g.value # None
                       THEN Complete(p, [f EXCEPT !.read = "hit", !.bok = 1,
                                            !.ret = g.value,
                                            !.exp = cache[i].expire_at])
                       ELSE Continue(p, [f EXCEPT !.pc = "func", !.read = "miss",
                                            !.bok = 1])
    /\ UNCHANGED <<now, _instance>>

\* the wrapper with func called outside the try block: its error goes
\* straight to the caller
WrapperFuncPropagates(U, p) ==
    /\ frames[p].kind = "cache" /\ frames[p].pc = "func"
    /\ \E o \in U.outcomes :
        LET f == [frames[p] EXCEPT !.outs = Append(@, o)]
        IN  IF o = Raise THEN Complete(p, [f EXCEPT !.raised = "op"])
            ELSE IF o # None THEN Continue(p, [f EXCEPT !.pc = "set", !.result = o])
            ELSE Complete(p, [f EXCEPT !.ret = o])
    /\ UNCHANGED <<cache, now, _instance>>

\* the wrapper without the test of line 36: a None result is stored too
WrapperFuncStoresNone(U, p) ==
    /\ frames[p].kind = "cache" /\ frames[p].pc = "func"
    /\ \E o \in U.outcomes :
        LET f == [frames[p] EXCEPT !.outs = Append(@, o)]
        IN  IF o = Raise THEN Continue(p, [f EXCEPT !.pc = "except", !.err = "op"])
            ELSE Continue(p, [f EXCEPT !.pc = "set", !.result = o])
    /\ UNCHANGED <<cache, now, _instance>>

\* the wrapper with "if result:" at line 36
WrapperFuncStoresTruthy(U, p) ==
    /\ frames[p].kind = "cache" /\ frames[p].pc = "func"
    /\ \E o \in U.outcomes :
        LET f == [frames[p] EXCEPT !.outs = Append(@, o),
                                  !.seen = Invalidations(Len(log))]
        IN  IF o = Raise THEN Continue(p, [f EXCEPT !.pc = "except", !.err = "op"])
            ELSE IF o \notin Falsy \cup {None}
            THEN Continue(p, [f EXCEPT !.pc = "set", !.result = o])
            ELSE Complete(p, [f EXCEPT !.ret = o])
    /\ UNCHANGED <<cache, now, _instance>>

\* line 34: result = await func(*args, **kwargs); lines 36, 39
WrapperFunc(U, p) ==
    /\ frames[p].kind = "cache" /\ frames[p].pc = "func"
    /\ \E o \in U.outcomes :
        LET f == [frames[p] EXCEPT !.outs = Append(@, o),
                                  !.seen = Invalidations(Len(log))]
        IN  IF o = Raise THEN Continue(p, [f EXCEPT !.pc = "except", !.err = "op"])
            ELSE IF o # None THEN Continue(p, [f EXCEPT !.pc = "set", !.result = o])
            ELSE Complete(p, [f EXCEPT !.ret = o])
    /\ UNCHANGED <<cache, now, _instance>>

\* a wrapper that drops its result when an invalidation has completed since
\* it invoked the function
WrapperSetUnlessInvalidated(U, p) ==
    /\ frames[p].kind = "cache" /\ frames[p].pc = "set"
    /\ \E fault \in U.faults :
        LET f == [frames[p] EXCEPT !.sets = @ + 1]
        IN  IF fault
            THEN /\ cache' = cache
                 /\ Continue(p, [f EXCEPT !.pc = "except", !.bfail = @ + 1,
                                    !.err = "backend"])
            ELSE IF Invalidations(Len(log)) > f.seen
            THEN /\ cache' = cache
                 /\ Complete(p, [frames[p] EXCEPT !.ret = f.result])
            ELSE /\ cache' = cache_set(cache, f.key, f.result, f.ttl, now)
                 /\ Complete(p, [f EXCEPT !.bok = @ + 1, !.ret = f.result,
                                    !.tset = <<now>>, !.exp = ExpireAt(f.ttl, now)])
    /\ UNCHANGED <<now, _instance>>

\* a wrapper that catches the error of cache.set by itself and returns the
\* result it has
WrapperSetKeepsResult(U, p) ==
    /\ frames[p].kind = "cache" /\ frames[p].pc = "set"
    /\ \E fault \in U.faults :
        LET f == [frames[p] EXCEPT !.sets = @ + 1]
        IN  IF fault
            THEN /\ cache' = cache
                 /\ Complete(p, [f EXCEPT !.bfail = @ + 1, !.ret = f.result])
            ELSE /\ cache' = cache_set(cache, f.key, f.result, f.ttl, now)
                 /\ Complete(p, [f EXCEPT !.bok = @ + 1, !.ret = f.result,
                                    !.tset = <<now>>, !.exp = ExpireAt(f.ttl, now)])
    /\ UNCHANGED <<now, _instance>>

\* line 37: await cache.set(_key, result, ttl=current_ttl); line 39
WrapperSet(U, p) ==
    /\ frames[p].kind = "cache" /\ frames[p].pc = "set"
    /\ \E fault \in U.faults :
        LET f == [frames[p] EXCEPT !.sets = @ + 1]
        IN  IF fault
            THEN /\ cache' = cache
                 /\ Continue(p, [f EXCEPT !.pc = "except", !.bfail = @ + 1,
                                    !.err = "backend"])
            ELSE /\ cache' = cache_set(cache, f.key, f.result, f.ttl, now)
                 /\ Complete(p, [f EXCEPT !.bok = @ + 1, !.ret = f.result,
                                    !.tset = <<now>>, !.exp = ExpireAt(f.ttl, now)])
    /\ UNCHANGED <<now, _instance>>

\* the except clause re-raising what it caught instead of calling func
WrapperExceptReraise(U, p) ==
    /\ frames[p].kind = "cache" /\ frames[p].pc = "except"
    /\ Complete(p, [frames[p] EXCEPT !.raised = frames[p].err])
    /\ UNCHANGED <<cache, now, _instance>>

\* an except clause that calls func again when the call it makes raises
WrapperExceptRetries(U, p) ==
    /\ frames[p].kind = "cache" /\ frames[p].pc = "except"
    /\ \E o \in U.outcomes :
        LET f == [frames[p] EXCEPT !.outs = Append(@, o),
                                  !.seen = Invalidations(Len(log))]
        IN  IF o = Raise /\ Len(f.outs) < 3 THEN Continue(p, f)
            ELSE IF o = Raise THEN Complete(p, [f EXCEPT !.raised = "op"])
            ELSE Complete(p, [f EXCEPT !.ret = o])
    /\ UNCHANGED <<cache, now, _instance>>

\* lines 40-42: except Exception: return await func(*args, **kwargs)
WrapperExcept(U, p) ==
    /\ frames[p].kind = "cache" /\ frames[p].pc = "except"
    /\ \E o \in U.outcomes :
        LET f == [frames[p] EXCEPT !.outs = Append(@, o),
                                  !.seen = Invalidations(Len(log))]
        IN  IF o = Raise THEN Complete(p, [f EXCEPT !.raised = "op"])
            ELSE Complete(p, [f EXCEPT !.ret = o])
    /\ UNCHANGED <<cache, now, _instance>>

(***************************************************************************)
(* InMemoryCacheDecorator.invalidate: the invalidation wrapper.  invs is   *)
(* the stack of invalidate decorators on the method, outermost first; each *)
(* is [target |-> name, mapping |-> param_mapping].                        *)
(***************************************************************************)
\* the enumeration outside the try block: a get_keys error reaches the caller
EnumerateUncaught(p, f, fault) ==
    LET inv == f.call.invs[f.level]
        pattern == InvalidationPattern(inv.target, inv.mapping, f.call.kwargs)
        cached_keys == cache_get_keys(cache, pattern)
        last == f.level = Len(f.call.invs)
    IN  IF fault
        THEN Complete(p, [f EXCEPT !.bfail = @ + 1, !.raised = "backend"])
        ELSE IF Len(cached_keys) > 0
        THEN Continue(p, [f EXCEPT !.pc = "del", !.keys = cached_keys, !.bok = @ + 1,
                             !.matched = Append(@, cached_keys),
                             !.deleted = Append(@, <<>>)])
        ELSE Continue(p, [f EXCEPT !.pc = IF last THEN "body" ELSE "enum",
                             !.level = IF last THEN @ ELSE @ + 1,
                             !.bok = @ + 1, !.matched = Append(@, <<>>),
                             !.deleted = Append(@, <<>>)])

\* lines 55-66 of the wrapper at f.level: the pattern and await cache.get_keys
Enumerate(p, f, fault) ==
    LET inv == f.call.invs[f.level]
        pattern == InvalidationPattern(inv.target, inv.mapping, f.call.kwargs)
        cached_keys == cache_get_keys(cache, pattern)
        last == f.level = Len(f.call.invs)
    IN  IF fault
        THEN Continue(p, [f EXCEPT !.pc = IF last THEN "body" ELSE "enum",
                             !.level = IF last THEN @ ELSE @ + 1,
                             !.bfail = @ + 1, !.matched = Append(@, <<>>),
                             !.deleted = Append(@, <<>>)])
        ELSE IF Len(cached_keys) > 0
        THEN Continue(p, [f EXCEPT !.pc = "del", !.keys = cached_keys, !.bok = @ + 1,
                             !.matched = Append(@, cached_keys),
                             !.deleted = Append(@, <<>>)])
        ELSE Continue(p, [f EXCEPT !.pc = IF last THEN "body" ELSE "enum",
                             !.level = IF last THEN @ ELSE @ + 1,
                             !.bok = @ + 1, !.matched = Append(@, <<>>),
                             !.deleted = Append(@, <<>>)])

\* the outermost wrapper is entered: lines 53-66
InvalidateEnter(U, p) ==
    /\ CanStart(U, p)
    /\ \E d \in CallsOf(U, "invalidate"), fault \in U.faults :
        /\ Initialised(d)
        /\ Enumerate(p, [IdleFrame EXCEPT !.kind = "invalidate", !.call = d,
                            !.level = 1, !.pre = Keys(cache)], fault)
    /\ UNCHANGED <<cache, now, _instance>>

\* an outer wrapper that calls the method itself, not the wrapper below it
InvalidateInnerSkips(U, p) ==
    /\ frames[p].kind = "invalidate" /\ frames[p].pc = "enum"
    /\ Continue(p, [frames[p] EXCEPT !.pc = "body"])
    /\ UNCHANGED <<cache, now, _instance>>

\* line 74 of an outer wrapper calls the next one: lines 53-66 again
InvalidateInner(U, p) ==
    /\ frames[p].kind = "invalidate" /\ frames[p].pc = "enum"
    /\ \E fault \in U.faults : Enumerate(p, frames[p], fault)
    /\ UNCHANGED <<cache, now, _instance>>

\* the deletions outside the try block: a delete error reaches the caller
InvalidateDeleteUncaught(U, p) ==
    /\ frames[p].kind = "invalidate" /\ frames[p].pc = "del"
    /\ \E fault \in U.faults :
        LET f == frames[p]
            cache_key == Head(f.keys)
            last == f.level = Len(f.call.invs)
            leave == Len(f.keys) = 1
            g == [f EXCEPT !.pc = IF ~leave THEN "del" ELSE IF last THEN "body" ELSE "enum",
                     !.level = IF leave /\ ~last THEN @ + 1 ELSE @,
                     !.keys = IF leave THEN <<>> ELSE Tail(@)]
        IN  IF fault
            THEN /\ cache' = cache
                 /\ Complete(p, [f EXCEPT !.bfail = @ + 1, !.raised = "backend"])
            ELSE /\ cache' = cache_delete(cache, cache_key)
                 /\ Continue(p, [g EXCEPT !.bok = @ + 1,
                                    !.deleted[f.level] = Append(@, cache_key)])
    /\ UNCHANGED <<now, _instance>>

\* the loop with the try block inside it: an error skips one key only
InvalidateDeleteSkips(U, p) ==
    /\ frames[p].kind = "invalidate" /\ frames[p].pc = "del"
    /\ \E fault \in U.faults :
        LET f == frames[p]
            cache_key == Head(f.keys)
            last == f.level = Len(f.call.invs)
            leave == Len(f.keys) = 1
            g == [f EXCEPT !.pc = IF ~leave THEN "del" ELSE IF last THEN "body" ELSE "enum",
                     !.level = IF leave /\ ~last THEN @ + 1 ELSE @,
                     !.keys = IF leave THEN <<>> ELSE Tail(@)]
        IN  IF fault
            THEN /\ cache' = cache
                 /\ Continue(p, [g EXCEPT !.bfail = @ + 1])
            ELSE /\ cache' = cache_delete(cache, cache_key)
                 /\ Continue(p, [g EXCEPT !.bok = @ + 1,
                                    !.deleted[f.level] = Append(@, cache_key)])
    /\ UNCHANGED <<now, _instance>>

\* lines 68-69: await cache.delete(cache_key), one key per step; an error
\* leaves the loop (lines 71-72)
InvalidateDelete(U, p) ==
    /\ frames[p].kind = "invalidate" /\ frames[p].pc = "del"
    /\ \E fault \in U.faults :
        LET f == frames[p]
            cache_key == Head(f.keys)
            last == f.level = Len(f.call.invs)
            leave == fault \/ Len(f.keys) = 1
            g == [f EXCEPT !.pc = IF ~leave THEN "del" ELSE IF last THEN "body" ELSE "enum",
                     !.level = IF leave /\ ~last THEN @ + 1 ELSE @,
                     !.keys = IF leave THEN <<>> ELSE Tail(@)]
        IN  IF fault
            THEN /\ cache' = cache
                 /\ Continue(p, [g EXCEPT !.bfail = @ + 1])
            ELSE /\ cache' = cache_delete(cache, cache_key)
                 /\ Continue(p, [g EXCEPT !.bok = @ + 1,
                                    !.deleted[f.level] = Append(@, cache_key)])
    /\ UNCHANGED <<now, _instance>>

(***************************************************************************)
(* InMemoryCacheDecorator.invalidate_all: the cache-clearing wrapper.      *)
(***************************************************************************)
\* lines 83-88: await cache.clear()
InvalidateAllClear(U, p) ==
    /\ CanStart(U, p)
    /\ \E d \in CallsOf(U, "invalidate_all"), fault \in U.faults :
        LET f == [IdleFrame EXCEPT !.kind = "invalidate_all", !.call = d,
                     !.pc = "body", !.pre = Keys(cache)]
        IN  /\ Initialised(d)
            /\ IF fault
               THEN /\ cache' = cache
                    /\ Continue(p, [f EXCEPT !.bfail = 1])
               ELSE /\ cache' = cache_clear(cache)
                    /\ Continue(p, [f EXCEPT !.bok = 1])
    /\ UNCHANGED <<now, _instance>>

\* the wrapped method called again when it raises, as the cache wrapper does
BodyRetries(U, p) ==
    /\ frames[p].kind \in {"invalidate", "invalidate_all"} /\ frames[p].pc = "body"
    /\ \E o \in U.bodyOutcomes :
        LET f == [frames[p] EXCEPT !.outs = Append(@, o)]
        IN  IF o = Raise /\ Len(f.outs) < 2 THEN Continue(p, f)
            ELSE IF o = Raise THEN Complete(p, [f EXCEPT !.raised = "op"])
            ELSE Complete(p, [f EXCEPT !.ret = o])
    /\ UNCHANGED <<cache, now, _instance>>

\* return await func(*args, **kwargs) of invalidate (line 74) and of
\* invalidate_all (line 89): the wrapped method itself
Body(U, p) ==
    /\ frames[p].kind \in {"invalidate", "invalidate_all"} /\ frames[p].pc = "body"
    /\ \E o \in U.bodyOutcomes :
        LET f == [frames[p] EXCEPT !.outs = Append(@, o)]
        IN  IF o = Raise THEN Complete(p, [f EXCEPT !.raised = "op"])
            ELSE Complete(p, [f EXCEPT !.ret = o])
    /\ UNCHANGED <<cache, now, _instance>>

(***************************************************************************)
(* BaseCacheableClass: the wrappers of cache, invalidate and invalidate_all *)
(* hand an initialised object's call to the decorator's wrapper with self   *)
(* as the first argument (the actions above), and raise otherwise.          *)
(***************************************************************************)
\* the wrapper that tests nothing and returns None for an uninitialised object
MethodWithoutInitSilent(U, p) ==
    /\ CanStart(U, p)
    /\ \E d \in FreeCalls(U) \cup ScriptCalls(U) :
        /\ ~Initialised(d)
        /\ Complete(p, [IdleFrame EXCEPT !.kind = d.kind, !.call = d,
                            !.pre = Keys(cache)])
    /\ UNCHANGED <<cache, now, _instance>>

\* base.py lines 23-24, 43-44, 58-59: raise AttributeError
MethodWithoutInit(U, p) ==
    /\ CanStart(U, p)
    /\ \E d \in FreeCalls(U) \cup ScriptCalls(U) :
        /\ ~Initialised(d)
        /\ Complete(p, [IdleFrame EXCEPT !.kind = d.kind, !.call = d,
                            !.raised = "config", !.pre = Keys(cache)])
    /\ UNCHANGED <<cache, now, _instance>>

\* time.time() advances
Tick(U) ==
    /\ now < U.maxTime
    /\ now' = now + 1
    /\ UNCHANGED <<cache, frames, log, _instance>>

Init ==
    /\ cache = <<>>
    /\ now = 0
    /\ frames = [p \in Tasks |-> IdleFrame]
    /\ log = <<>>
    /\ _instance = 1

NextOver(U) ==
    \/ \E p \in Tasks : WrapperGet(U, p)
    \/ \E p \in Tasks : WrapperFunc(U, p)
    \/ \E p \in Tasks : WrapperSet(U, p)
    \/ \E p \in Tasks : WrapperExcept(U, p)
    \/ \E p \in Tasks : InvalidateEnter(U, p)
    \/ \E p \in Tasks : InvalidateInner(U, p)
    \/ \E p \in Tasks : InvalidateDelete(U, p)
    \/ \E p \in Tasks : InvalidateAllClear(U, p)
    \/ \E p \in Tasks : Body(U, p)
    \/ \E p \in Tasks : MethodWithoutInit(U, p)
    \/ Tick(U)

(***************************************************************************)
(* The decorated functions and the calls made to them.                     *)
(***************************************************************************)
get_data == <<"g", "e", "t">>
get_datax == <<"g", "e", "t", "x">>
update_data == <<"u", "p", "d">>
update_user == <<"u", "p", "u">>
invalidator == <<"i", "n", "v">>
clear_cache == <<"c", "l", "r">>
get_all_users == <<"a", "l", "l">>
update_both == <<"u", "p", "b">>
key == <<"k">>
param2 == <<"p">>

One == IntVal(<<"1">>)
Two == IntVal(<<"2">>)
A == StrVal(<<"a">>)
OneStr == StrVal(<<"1">>)
B == StrVal(<<"b">>)
Period == StrVal(<<".">>)

\* @decorator() async def get_data(key)
GetData(args, kwargs) == Call("cache", get_data, args, kwargs, NoInt, <<>>)

\* @decorator(ttl=2) async def get_datax(key)
GetDatax(args, kwargs) == Call("cache", get_datax, args, kwargs, <<2>>, <<>>)

Invalidation(target, mapping) == [target |-> target, mapping |-> mapping]

\* @decorator.invalidate("get_data", param_mapping={"key": "key"})
\* async def update_data(key)
UpdateData(args, kwargs) ==
    Call("invalidate", update_data, args, kwargs, NoInt,
         <<Invalidation(get_data, <<<<key, key>>>>)>>)

\* @BaseCacheableClass.invalidate("get_data", param_mapping={"key": "key"})
\* @BaseCacheableClass.invalidate("get_datax")
\* async def update_user(key)
UpdateUser(args, kwargs) ==
    Call("invalidate", update_user, args, kwargs, NoInt,
         <<Invalidation(get_data, <<<<key, key>>>>), Invalidation(get_datax, <<>>)>>)

\* @invalidate_decorator(target_func_name="get_data") async def invalidator()
Invalidator ==
    Call("invalidate", invalidator, <<>>, <<>>, NoInt, <<Invalidation(get_data, <<>>)>>)

\* @decorator.invalidate("get_data",
\*                       param_mapping={"key": "key", "param2": "param2"})
\* async def update_both(key, param2)
UpdateBoth(args, kwargs) ==
    Call("invalidate", update_both, args, kwargs, NoInt,
         <<Invalidation(get_data, <<<<key, key>>, <<param2, param2>>>>)>>)

\* @decorator.invalidate_all() async def clear_cache()
ClearCache == Call("invalidate_all", clear_cache, <<>>, <<>>, NoInt, <<>>)

\* test_base.py BadService: methods of a class whose __init__ does not
\* call super().__init__()
BadGetData == Call("cache", get_data, <<bad_service>>, <<>>, NoInt, <<>>)

BadUpdateData ==
    Call("invalidate", update_data, <<bad_service>>, <<>>, NoInt,
         <<Invalidation(get_data, <<>>)>>)

BadClearData == Call("invalidate_all", clear_cache, <<bad_service>>, <<>>, NoInt, <<>>)

\* @BaseCacheableClass.cache() async def get_all_users(self)
GetAllUsers(self) == Call("cache", get_all_users, <<self>>, <<>>, NoInt, <<>>)

Values == {"v1", "v2"}

\* test_cache_invalidation over a faulty backend: two entries of get_data
\* in the table when invalidator is called
TwoEntriesScript ==
    <<GetData(<<One>>, <<>>), GetData(<<Two>>, <<>>), Invalidator>>

\* concurrent tasks making up to MaxCalls calls, a backend that may raise

Universe ==
    [tasks |-> Tasks,
     maxCalls |-> MaxCalls,
     maxTime |-> MaxRaceTime,
     free |-> {GetData(<<One>>, <<>>), UpdateUser(<<One>>, <<>>), ClearCache,
               BadGetData},
     scripts |-> {TwoEntriesScript},
     faults |-> BOOLEAN,
     outcomes |-> Values \cup {None, Raise},
     bodyOutcomes |-> {"v1", Raise}]

\* test_basic_caching, test_real_cache_integration: the same call repeated
RepeatedRead(d) == <<d, d, d>>

\* test_invalidate: read, read, update, read
InvalidateScript ==
    <<GetData(<<One>>, <<>>), GetData(<<One>>, <<>>), UpdateData(<<One>>, <<>>),
      GetData(<<One>>, <<>>)>>

\* test_cache_invalidation, with entries of several argument shapes and of
\* another function in the table
InvalidationScript ==
    <<GetData(<<One>>, <<>>), GetData(<<>>, <<<<key, A>>>>), GetDatax(<<One>>, <<>>),
      Invalidator>>

\* invalidation_example.main: reads of two functions, then update_user
UpdateUserScript ==
    <<GetData(<<One>>, <<>>), GetDatax(<<One>>, <<>>), UpdateUser(<<One>>, <<>>),
      GetData(<<One>>, <<>>)>>

\* test_invalidate_all: entries of two functions, clear_cache, read again
InvalidateAllScript ==
    <<GetData(<<One>>, <<>>), GetDatax(<<One>>, <<>>), ClearCache,
      GetData(<<One>>, <<>>)>>

\* test_*_decorator_without_init, after an entry has been cached
WithoutInitScript ==
    <<GetData(<<One>>, <<>>), BadGetData, BadUpdateData, BadClearData>>

\* test_cache_with_different_parameters, test_cache_key_collision_prevention:
\* calls that differ in the function's name, in a value, in the type of a
\* value, in the order of the values or in how a value is passed
KeyCalls ==
    {GetData(<<One>>, <<>>), GetDatax(<<One>>, <<>>), GetData(<<OneStr>>, <<>>),
     GetData(<<One, Two>>, <<>>), GetData(<<Two, One>>, <<>>),
     GetData(<<>>, <<<<key, One>>>>), GetData(<<>>, <<<<key, OneStr>>>>)}

\* one of them called after one of them
KeyPairs == {<<d, e>> : d \in KeyCalls, e \in KeyCalls}

\* test_key_builder: three positional strings, a string and a keyword, two
\* positional strings
KeyBuilderScript ==
    <<GetData(<<A, A, A>>, <<>>), GetData(<<A>>, <<<<key, A>>>>),
      GetData(<<A, A>>, <<>>)>>

\* test_database_query_caching with the key passed by keyword: read,
\* update, read again
KeywordUpdateScript ==
    <<GetData(<<>>, <<<<key, One>>>>), UpdateData(<<>>, <<<<key, One>>>>),
      GetData(<<>>, <<<<key, One>>>>)>>

\* invalidation_example.main on a service object: entries of two of its
\* methods, then update_user with its two stacked invalidations
StackedScript ==
    <<GetData(<<service, One>>, <<>>), GetDatax(<<service, One>>, <<>>),
      UpdateUser(<<service, One>>, <<>>)>>

\* test_selective_cache_invalidation with string values passed by keyword:
\* entries of two items and of another function, then the update of one
SelectiveScript ==
    <<GetData(<<>>, <<<<key, A>>>>), GetData(<<>>, <<<<key, B>>>>),
      GetDatax(<<>>, <<<<key, A>>>>), UpdateData(<<>>, <<<<key, A>>>>)>>

\* the same with the update of an item whose name is "."
PeriodScript ==
    <<GetData(<<>>, <<<<key, A>>>>), UpdateData(<<>>, <<<<key, Period>>>>)>>

\* test_selective_cache_invalidation as written: everything positional
PositionalUpdateScript ==
    <<GetData(<<A>>, <<>>), GetData(<<>>, <<<<key, B>>>>),
      GetDatax(<<A>>, <<>>), UpdateData(<<A>>, <<>>)>>

\* an entry built from a positional call, then the update by keyword
PositionalEntryScript ==
    <<GetData(<<A>>, <<>>), UpdateData(<<>>, <<<<key, A>>>>),
      GetData(<<A>>, <<>>)>>

\* test_cache_invalidation_with_different_parameters by keyword: an entry
\* built with the keywords in either order, then the update with the
\* keywords in either order
BothOrders == {<<<<key, A>>, <<param2, B>>>>, <<<<param2, B>>, <<key, A>>>>}

TwoParameterScripts ==
    {<<GetData(<<>>, kw1), UpdateBoth(<<>>, kw2)>> :
        kw1 \in BothOrders, kw2 \in BothOrders}

\* test_cache_with_complex_parameters: one read made twice, the keywords in
\* either order each time
KeywordOrderScripts ==
    {<<GetData(<<>>, kw1), GetData(<<>>, kw2)>> :
        kw1 \in BothOrders, kw2 \in BothOrders}

\* redis_example.main, step 8: a method called on one service object, then
\* on a second object of the class bound to the same backend
CrossInstanceScript ==
    <<GetData(<<service, Two>>, <<>>), GetData(<<service2, Two>>, <<>>)>>

\* a method read through two service objects, then the update of the item
\* made through the first
CrossInvalidationScript ==
    <<GetData(<<service>>, <<<<key, A>>>>), GetData(<<service2>>, <<<<key, A>>>>),
      UpdateData(<<service>>, <<<<key, A>>>>)>>

\* the sequences of calls that the caller of SeqUniverse may make
SeqScripts ==
    {RepeatedRead(GetData(<<One>>, <<>>)),
     RepeatedRead(GetDatax(<<One>>, <<>>)),
     InvalidateScript, InvalidationScript, UpdateUserScript,
     InvalidateAllScript, WithoutInitScript, KeyBuilderScript,
     RepeatedRead(GetAllUsers(service)), KeywordUpdateScript,
     StackedScript, CrossInstanceScript, SelectiveScript,
     PeriodScript, PositionalUpdateScript, PositionalEntryScript,
     CrossInvalidationScript}
        \cup KeyPairs \cup TwoParameterScripts \cup KeywordOrderScripts

\* one caller awaiting each call before the next, the in-process backend
SeqUniverse ==
    [tasks |-> {1},
     maxCalls |-> 0,
     maxTime |-> MaxTime,
     free |-> {},
     scripts |-> SeqScripts,
     faults |-> {FALSE},
     outcomes |-> Values \cup {None, Raise},
     bodyOutcomes |-> {"v1", Raise}]

\* concurrent tasks reading an item and updating it, one call more, the
\* backend never raising
RaceUniverse ==
    [tasks |-> Tasks,
     maxCalls |-> MaxCalls + 1,
     maxTime |-> MaxRaceTime,
     free |-> {GetDatax(<<A>>, <<>>), UpdateUser(<<A>>, <<>>)},
     scripts |-> {},
     faults |-> {FALSE},
     outcomes |-> {"v1", Raise},
     bodyOutcomes |-> {"v1"}]

\* test_none_result_not_cached with a function whose result may also be 0,
\* False, '' or []: the same read made three times by one caller
FalsyUniverse ==
    [tasks |-> {1},
     maxCalls |-> 0,
     maxTime |-> MaxTime,
     free |-> {},
     scripts |-> {RepeatedRead(GetData(<<One>>, <<>>))},
     faults |-> {FALSE},
     outcomes |-> Falsy \cup {"v1", None, Raise},
     bodyOutcomes |-> {}]

Next == NextOver(Universe)

Spec == Init /\ [][Next]_vars

NextSeq == NextOver(SeqUniverse)

SpecSeq == Init /\ [][NextSeq]_vars

\* the cache wrapper and the invalidation wrapper of the decorator
NextRace ==
    \/ \E p \in Tasks : WrapperGet(RaceUniverse, p)
    \/ \E p \in Tasks : WrapperFunc(RaceUniverse, p)
    \/ \E p \in Tasks : WrapperSet(RaceUniverse, p)
    \/ \E p \in Tasks : WrapperExcept(RaceUniverse, p)
    \/ \E p \in Tasks : InvalidateEnter(RaceUniverse, p)
    \/ \E p \in Tasks : InvalidateInner(RaceUniverse, p)
    \/ \E p \in Tasks : InvalidateDelete(RaceUniverse, p)
    \/ \E p \in Tasks : Body(RaceUniverse, p)
    \/ Tick(RaceUniverse)

SpecRace == Init /\ [][NextRace]_vars

\* the cache wrapper alone
NextFalsy ==
    \/ \E p \in Tasks : WrapperGet(FalsyUniverse, p)
    \/ \E p \in Tasks : WrapperFunc(FalsyUniverse, p)
    \/ \E p \in Tasks : WrapperSet(FalsyUniverse, p)
    \/ \E p \in Tasks : WrapperExcept(FalsyUniverse, p)
    \/ Tick(FalsyUniverse)

SpecFalsy == Init /\ [][NextFalsy]_vars

(***************************************************************************)
(* The backend used directly, as the interface tests use it: a client      *)
(* constructs InMemoryCache() as often as it likes and awaits one method   *)
(* after another on the handles it got.  Under SpecStore the log holds     *)
(* one entry per completed operation:                                      *)
(*                                                                         *)
(*   call       the operation: op, the handle h it was made on (the h-th   *)
(*              construction), and its arguments                           *)
(*   t          the time of the operation                                  *)
(*   result     what it returned; for "new" the object constructed         *)
(*   pre, post  the table before and after                                 *)
(***************************************************************************)
Op(op, h, k, value, ttl, pattern) ==
    [op |-> op, h |-> h, key |-> k, value |-> value, ttl |-> ttl,
     pattern |-> pattern]

New == Op("new", 0, <<>>, None, NoInt, NoPattern)
Set(h, k, value, ttl) == Op("set", h, k, value, ttl, NoPattern)
Get(h, k) == Op("get", h, k, None, NoInt, NoPattern)
Exists(h, k) == Op("exists", h, k, None, NoInt, NoPattern)
GetKeys(h, pattern) == Op("get_keys", h, <<>>, None, NoInt, pattern)
GetKeysRegex(h, target, pattern) ==
    Op("get_keys_regex", h, target, None, NoInt, pattern)
Delete(h, k) == Op("delete", h, k, None, NoInt, NoPattern)
Clear(h) == Op("clear", h, <<>>, None, NoInt, NoPattern)

\* the handles constructed so far
Handles == Cardinality({i \in 1..Len(log) : log[i].call.op = "new"})

\* the operations the client may make next
StoreOps(U, op) ==
    {o \in {s[Len(log) + 1] : s \in {t \in U.scripts : Follows(t)}} :
        o.op = op /\ o.h <= Handles}

Done(o, result, post) ==
    log' = Append(log, [call |-> o, t |-> now, result |-> result,
                        pre |-> cache, post |-> post])

\* InMemoryCache()
StoreNew(U) ==
    \E o \in StoreOps(U, "new") :
        LET n == InMemoryCache(_instance, cache)
        IN  /\ _instance' = n.instance
            /\ cache' = n.cache
            /\ Done(o, n.instance, n.cache)
            /\ UNCHANGED <<now, frames>>

\* await cache.set(key, value, ttl)
StoreSet(U) ==
    \E o \in StoreOps(U, "set") :
        /\ cache' = cache_set(cache, o.key, o.value, o.ttl, now)
        /\ Done(o, None, cache')
        /\ UNCHANGED <<now, frames, _instance>>

\* await cache.get(key)
StoreGet(U) ==
    \E o \in StoreOps(U, "get") :
        LET g == cache_get(cache, o.key, now)
        IN  /\ cache' = g.cache
            /\ Done(o, g.value, g.cache)
            /\ UNCHANGED <<now, frames, _instance>>

\* await cache.exists(key)
StoreExists(U) ==
    \E o \in StoreOps(U, "exists") :
        LET g == cache_exists(cache, o.key, now)
        IN  /\ cache' = g.cache
            /\ Done(o, g.value, g.cache)
            /\ UNCHANGED <<now, frames, _instance>>

\* await cache.get_keys(pattern)
StoreGetKeys(U) ==
    \E o \in StoreOps(U, "get_keys") :
        /\ Done(o, get_keys(cache, o.pattern), cache)
        /\ UNCHANGED <<cache, now, frames, _instance>>

\* await cache.get_keys_regex(target_func_name, pattern)
StoreGetKeysRegex(U) ==
    \E o \in StoreOps(U, "get_keys_regex") :
        /\ Done(o, get_keys_regex(cache, o.key, o.pattern), cache)
        /\ UNCHANGED <<cache, now, frames, _instance>>

\* await cache.delete(key)
StoreDelete(U) ==
    \E o \in StoreOps(U, "delete") :
        /\ cache' = cache_delete(cache, o.key)
        /\ Done(o, None, cache')
        /\ UNCHANGED <<now, frames, _instance>>

\* await cache.clear()
StoreClear(U) ==
    \E o \in StoreOps(U, "clear") :
        /\ cache' = cache_clear(cache)
        /\ Done(o, None, cache')
        /\ UNCHANGED <<now, frames, _instance>>

\* the process before anything constructed the backend
InitStore ==
    /\ cache = <<>>
    /\ now = 0
    /\ frames = [p \in Tasks |-> IdleFrame]
    /\ log = <<>>
    /\ _instance = 0

\* the keys and the pattern of test_get_keys
test_key1 == <<"t", ":", "1">>
test_key2 == <<"t", ":", "2">>
other_key3 == <<"o", ":", "3">>
test_pattern == <<Lits(<<"t", ":">>) \o <<AnyStar>>>>

\* test_singleton, then test_set_and_get over the two handles
SingletonScripts ==
    {<<New, New, Set(1, test_key1, "v1", NoInt), Get(2, test_key1),
       Exists(2, test_key1), GetKeys(2, NoPattern)>>,
     <<New, Set(1, test_key1, "v1", <<2>>), New, Get(2, test_key1),
       Exists(1, test_key1), GetKeys(2, test_pattern)>>,
     <<New, Set(1, test_key1, "v1", NoInt), Set(1, other_key3, "v2", NoInt),
       New, New, GetKeysRegex(3, get_data, NoPattern)>>}

\* the queries of the interface
Queries ==
    {Get(1, test_key1), Exists(1, test_key1), GetKeys(1, NoPattern),
     GetKeys(1, test_pattern), GetKeysRegex(1, get_data, NoPattern),
     GetKeysRegex(1, get_data, test_pattern)}

\* test_ttl_expiration: an item with a ttl, queried twice at any times
ExpirationScripts ==
    {<<New, Set(1, test_key1, "v1", <<1>>), q1, q2>> :
        q1 \in Queries, q2 \in Queries}

\* test_no_ttl, test_delete, test_clear and an overwrite
NoTtlScripts ==
    {<<New, Set(1, test_key1, "v1", NoInt), Get(1, test_key1),
       Exists(1, test_key1), Set(1, test_key1, "v2", <<1>>),
       Get(1, test_key1), Exists(1, test_key1)>>,
     <<New, Set(1, test_key1, "v1", <<1>>),
       Set(1, test_key1, "v2", NoInt), Get(1, test_key1),
       Exists(1, test_key1)>>,
     <<New, Set(1, test_key1, "v1", NoInt), Delete(1, test_key1),
       Get(1, test_key1), Exists(1, test_key1)>>,
     <<New, Set(1, test_key1, "v1", NoInt), Set(1, test_key2, "v2", NoInt),
       Clear(1), Exists(1, test_key1), Get(1, test_key2)>>}

\* test_get_keys
GetKeysScripts ==
    {<<New, Set(1, test_key1, "v1", NoInt), Set(1, test_key2, "v2", NoInt),
       Set(1, other_key3, "v1", NoInt), GetKeys(1, NoPattern),
       GetKeys(1, test_pattern)>>}

StoreUniverse ==
    [scripts |-> SingletonScripts \cup ExpirationScripts \cup NoTtlScripts
                     \cup GetKeysScripts,
     maxTime |-> MaxTime]

NextStore ==
    \/ StoreNew(StoreUniverse)
    \/ StoreSet(StoreUniverse)
    \/ StoreGet(StoreUniverse)
    \/ StoreExists(StoreUniverse)
    \/ StoreGetKeys(StoreUniverse)
    \/ StoreGetKeysRegex(StoreUniverse)
    \/ StoreDelete(StoreUniverse)
    \/ StoreClear(StoreUniverse)
    \/ Tick(StoreUniverse)

SpecStore == InitStore /\ [][NextStore]_vars

(***************************************************************************)
(* Properties.  Under SpecSeq the log is the sequence of calls one caller  *)
(* made, each awaited before the next: log[i] and log[i + 1] are two       *)
(* successive calls.                                                       *)
(***************************************************************************)
Calls == 1..Len(log)

IsCached(e) == e.kind = "cache"

\* the wrapped function returned a non-null value whenever e invoked it
ReturnsValue(e) == \A n \in 1..Len(e.outs) : e.outs[n] \in Values

\* the wrapped function returned None whenever e invoked it, at least once
ReturnsNone(e) == e.outs # <<>> /\ \A n \in 1..Len(e.outs) : e.outs[n] = None

\* the wrapped function raised whenever e invoked it, at least once
AlwaysRaises(e) == e.outs # <<>> /\ \A n \in 1..Len(e.outs) : e.outs[n] = Raise

FaultFree(e) == e.bfail = 0

\* two successive calls of one cached function with equal arguments, the
\* function returning a non-null value, no backend fault, and the second
\* call made before the item the first one wrote or read expires
IdempotentPair(i) ==
    /\ i + 1 \in Calls
    /\ IsCached(log[i]) /\ log[i + 1].call = log[i].call
    /\ ReturnsValue(log[i]) /\ ReturnsValue(log[i + 1])
    /\ FaultFree(log[i]) /\ FaultFree(log[i + 1])
    /\ log[i].raised = "no" /\ log[i].ret # None
    /\ log[i].exp = NoInt \/ log[i + 1].tget < log[i].exp[1]

\* C1 as stated: two successive equal calls invoke the function exactly once
\* in total, and the second returns what the first returned
C1_ExactlyOnce ==
    \A i \in Calls : IdempotentPair(i) =>
        /\ Len(log[i].outs) + Len(log[i + 1].outs) = 1
        /\ log[i + 1].outs = <<>>
        /\ log[i + 1].ret = log[i].ret

\* C1: of two successive equal calls of a cached function that returns a
\* non-null value (no backend fault, expiry or invalidation in between) the
\* second never invokes the function and returns what the first returned;
\* the function is invoked at most once in total: once when the first call
\* misses, not at all when the first call is itself served from the cache
C1_IdempotentRead ==
    \A i \in Calls : IdempotentPair(i) =>
        /\ Len(log[i].outs) + Len(log[i + 1].outs) <= 1
        /\ log[i + 1].outs = <<>>
        /\ log[i + 1].read = "hit"
        /\ log[i + 1].ret = log[i].ret
        /\ Len(log[i].outs) = 1 <=> log[i].read = "miss"

C1_Witness ==
    \E i \in Calls :
        /\ IdempotentPair(i)
        /\ log[i].read = "miss" /\ Len(log[i].outs) = 1
        /\ log[i + 1].read = "hit" /\ log[i + 1].ret = log[i].outs[1]

\* C2: when the wrapped function returns None the cache wrapper makes no
\* backend write and returns None, the next call with the same arguments
\* invokes the function again, and the table never holds a None value
C2_NullNotCached ==
    /\ \A n \in 1..Len(cache) : cache[n].value # None
    /\ \A i \in Calls : IsCached(log[i]) /\ ReturnsNone(log[i]) =>
        /\ log[i].sets = 0 /\ log[i].tset = NoInt
        /\ log[i].ret = None /\ log[i].raised = "no"
    /\ \A i \in Calls :
        /\ i + 1 \in Calls
        /\ IsCached(log[i]) /\ ReturnsNone(log[i]) /\ log[i + 1].call = log[i].call
        /\ FaultFree(log[i]) /\ FaultFree(log[i + 1])
        => log[i + 1].read = "miss" /\ Len(log[i + 1].outs) >= 1

C2_Witness ==
    \E i \in Calls :
        /\ i + 1 \in Calls
        /\ IsCached(log[i]) /\ log[i].outs = <<None>> /\ log[i].ret = None
        /\ log[i + 1].call = log[i].call /\ log[i + 1].outs = <<None>>

\* every call between log[i] and log[j] is the same call served from the cache
OnlyHitsBetween(i, j) ==
    \A k \in (i + 1)..(j - 1) : log[k].call = log[i].call /\ log[k].read = "hit"

\* log[i] wrote an item and log[j] is a later identical call, the item
\* neither invalidated nor rewritten in between
WrittenThenRead(i, j) ==
    /\ i < j
    /\ IsCached(log[i]) /\ log[i].tset # NoInt
    /\ log[j].call = log[i].call
    /\ OnlyHitsBetween(i, j)
    /\ FaultFree(log[j])

\* C3: an item written at time t with TTL T is served to every identical
\* call made before t + T, the function not being invoked; an identical call
\* at or after t + T misses, invokes the function and stores its result
C3_TtlExpiry ==
    \A i, j \in Calls : WrittenThenRead(i, j) =>
        IF log[j].tget < log[i].tset[1] + log[i].ttl[1]
        THEN /\ log[j].read = "hit"
             /\ log[j].outs = <<>>
             /\ log[j].ret = log[i].ret
        ELSE /\ log[j].read = "miss"
             /\ Len(log[j].outs) >= 1
             /\ log[j].outs[1] \in Values =>
                    /\ log[j].sets = 1 /\ log[j].tset # NoInt
                    /\ log[j].ret = log[j].outs[1]

C3_Witness ==
    \E i, j, k \in Calls :
        /\ WrittenThenRead(i, j) /\ WrittenThenRead(i, k)
        /\ log[j].tget < log[i].tset[1] + log[i].ttl[1] /\ log[j].read = "hit"
        /\ log[k].tget >= log[i].tset[1] + log[i].ttl[1]
        /\ log[k].outs # <<>> /\ log[k].tset # NoInt

\* the calls of test_invalidate have been made: the first read missed and
\* stored, the second was served from the cache; no backend fault, and the
\* function does not raise
InvalidateScenario ==
    /\ Len(log) = 4
    /\ \A i \in 1..4 : log[i].call = InvalidateScript[i] /\ FaultFree(log[i])
    /\ log[1].read = "miss" /\ log[1].tset # NoInt
    /\ log[2].read = "hit"
    /\ \A n \in 1..Len(log[4].outs) : log[4].outs[n] # Raise

\* C4: in the sequence get_data(1), get_data(1), update_data(1), get_data(1)
\* the last call is a miss, and get_data is invoked exactly twice
C4_InvalidationRemoves ==
    InvalidateScenario =>
        /\ log[4].read = "miss"
        /\ Len(log[3].outs) = 1
        /\ Len(log[1].outs) + Len(log[2].outs) + Len(log[4].outs) = 2

C4_Witness ==
    /\ InvalidateScenario
    /\ log[3].deleted = <<<<log[1].key>>>>
    /\ log[4].outs \in {<<"v1">>, <<"v2">>}

\* the keys the cache wrapper has produced for the function named target
KeysOf(target) ==
    {log[i].key : i \in {j \in Calls : IsCached(log[j]) /\ log[j].call.func = target}}

\* an invalidation wrapper that is about to call the wrapped method
AtBody(f) == f.kind = "invalidate" /\ f.pc = "body"

\* C5: when the method wrapped by invalidate(target), no mapping, is about
\* to run, no key the cache wrapper produced for a function named target is
\* in the table, whatever arguments the key was built from
C5_FullInvalidation ==
    \A p \in Tasks : AtBody(frames[p]) /\ FaultFree(frames[p]) =>
        \A l \in 1..Len(frames[p].call.invs) :
            frames[p].call.invs[l].mapping = <<>> =>
                KeysOf(frames[p].call.invs[l].target) \cap Keys(cache) = {}

C5_Witness ==
    \E p \in Tasks :
        /\ AtBody(frames[p]) /\ frames[p].call = Invalidator
        /\ {key_builder(get_data, <<One>>, <<>>),
            key_builder(get_data, <<>>, <<<<key, A>>>>)} \subseteq frames[p].pre
        /\ Len(frames[p].deleted[1]) = 2
        /\ Keys(cache) = {key_builder(get_datax, <<One>>, <<>>)}

\* no call is running and the last call made was one of invalidate_all
ReturnedFromInvalidateAll ==
    /\ \A p \in Tasks : ~Active(p)
    /\ Len(log) > 0
    /\ log[Len(log)].kind = "invalidate_all"
    /\ Initialised(log[Len(log)].call)
    /\ FaultFree(log[Len(log)])

\* C6: after a call wrapped by invalidate_all has returned, none of the keys
\* that were in the table before the call can be retrieved, whichever
\* function they belong to, and the call returned the wrapped method's result
C6_InvalidateAllClears ==
    ReturnedFromInvalidateAll =>
        LET e == log[Len(log)]
        IN  /\ \A k \in e.pre : cache_get(cache, k, now).value = None
            /\ Len(e.outs) = 1
            /\ e.outs[1] # Raise => e.raised = "no" /\ e.ret = e.outs[1]

C6_Witness ==
    /\ ReturnedFromInvalidateAll
    /\ log[Len(log)].pre = {key_builder(get_data, <<One>>, <<>>),
                            key_builder(get_datax, <<One>>, <<>>)}
    /\ log[Len(log)].ret = "v1"

\* what the caller of e gets is what the last invocation of the wrapped
\* function gave: its value, or its error
GetsLastOutcome(e) ==
    LET o == e.outs[Len(e.outs)]
    IN  IF o = Raise THEN e.raised = "op" ELSE e.raised = "no" /\ e.ret = o

\* C7: when cache.get raises in a cache-decorated call, the caller does not
\* get the backend error but the result of the wrapped function, which is
\* invoked exactly once, and cache.set is not called
C7_FailOpenRead ==
    \A i \in Calls : IsCached(log[i]) /\ log[i].read = "raised" =>
        /\ log[i].raised # "backend"
        /\ Len(log[i].outs) = 1
        /\ GetsLastOutcome(log[i])
        /\ log[i].sets = 0 /\ log[i].tset = NoInt

C7_Witness ==
    \E i \in Calls :
        /\ IsCached(log[i]) /\ log[i].read = "raised"
        /\ log[i].outs = <<"v1">> /\ log[i].ret = "v1" /\ log[i].raised = "no"

\* every backend call that e made raised
Outage(e) == e.bok = 0 /\ e.bfail > 0

\* C8: no backend error ever reaches a caller, and a call in which every
\* backend operation raised, decorated with cache, invalidate or
\* invalidate_all, runs the wrapped function once and gives its result
C8_OutageRecomputes ==
    \A i \in Calls :
        /\ log[i].raised # "backend"
        /\ Outage(log[i]) => Len(log[i].outs) = 1 /\ GetsLastOutcome(log[i])

C8_Witness ==
    \E i, j \in Calls :
        /\ IsCached(log[i]) /\ Outage(log[i]) /\ log[i].ret = "v2"
        /\ log[j].kind = "invalidate" /\ Outage(log[j]) /\ log[j].bfail = 2
        /\ log[j].ret = "v1"

\* C9 as stated: whenever an invocation of the wrapped function raises under
\* the cache wrapper, the caller gets that error, and nothing is stored
C9_BusinessErrorsSurfaced ==
    \A i \in Calls :
        IsCached(log[i]) /\ (\E n \in 1..Len(log[i].outs) : log[i].outs[n] = Raise) =>
            log[i].raised = "op" /\ log[i].tset = NoInt

\* C10: a cache-decorated call whose function raises at every invocation
\* invokes it exactly twice and raises its error, storing nothing; the
\* next identical call is not served from the cache and does the same
C10_RetryOnFailure ==
    /\ \A i \in Calls : IsCached(log[i]) /\ AlwaysRaises(log[i]) /\ FaultFree(log[i]) =>
        /\ Len(log[i].outs) = 2
        /\ log[i].raised = "op"
        /\ log[i].sets = 0 /\ log[i].tset = NoInt
    /\ \A i \in Calls :
        /\ i + 1 \in Calls
        /\ IsCached(log[i]) /\ AlwaysRaises(log[i]) /\ log[i + 1].call = log[i].call
        /\ FaultFree(log[i]) /\ FaultFree(log[i + 1])
        => /\ log[i + 1].read = "miss"
           /\ AlwaysRaises(log[i + 1]) => Len(log[i + 1].outs) = 2

C10_Witness ==
    \E i \in Calls :
        /\ i + 1 \in Calls
        /\ IsCached(log[i]) /\ log[i + 1].call = log[i].call
        /\ log[i].outs = <<Raise, Raise>> /\ log[i].raised = "op"
        /\ log[i + 1].outs = <<Raise, Raise>> /\ log[i + 1].raised = "op"


\* a call of a method of an object without _cache_decorator
Uninitialised(e) == IsMethod(e.call) /\ e.call.args[1] = bad_service

\* C11: a call of a method decorated with BaseCacheableClass.cache,
\* invalidate or invalidate_all on an object that has no _cache_decorator
\* raises the configuration error: the method body is not invoked and no
\* backend operation is made, so the table is left as it was; no other call
\* raises that error
C11_MissingInit ==
    /\ \A i \in Calls : Uninitialised(log[i]) <=> log[i].raised = "config"
    /\ \A i \in Calls : Uninitialised(log[i]) =>
        /\ log[i].outs = <<>>
        /\ log[i].bok = 0 /\ log[i].bfail = 0 /\ log[i].sets = 0
    /\ \A p \in Tasks : Active(p) => ~Uninitialised(frames[p])

C11_Witness ==
    /\ Len(log) = 4
    /\ \A i \in 1..4 : log[i].call = WithoutInitScript[i]
    /\ log[1].tset # NoInt
    /\ \A i \in 2..4 : log[i].raised = "config"
    /\ Keys(cache) = {log[1].key}


\* the decorator's invalidation wrapper was entered
IsInvalidation(e) == e.kind = "invalidate" /\ Initialised(e.call)

\* C12: every call of an operation wrapped by invalidate invokes the
\* operation exactly once and gives the caller its result (or its own
\* error), whether no key or several keys matched and whether or not
\* get_keys or a delete raised; no backend error reaches the caller
C12_InvalidationNotAGate ==
    \A i \in Calls : IsInvalidation(log[i]) =>
        /\ Len(log[i].outs) = 1
        /\ GetsLastOutcome(log[i])
        /\ log[i].raised # "backend"

C12_Witness ==
    \E i \in Calls :
        /\ IsInvalidation(log[i])
        /\ Len(log[i].matched[1]) = 1 /\ log[i].deleted[1] = <<>>
        /\ log[i].bfail = 1 /\ log[i].outs = <<"v1">> /\ log[i].ret = "v1"


\* all the calls made so far, returned or still running, are the identical
\* cache-decorated call d; the function returns a non-null value at every
\* invocation and no backend call raised
RaceOfReads(d) ==
    /\ Len(log) >= 2
    /\ \A i \in Calls :
        log[i].call = d /\ FaultFree(log[i]) /\ ReturnsValue(log[i])
    /\ \A p \in Tasks : Active(p) =>
        frames[p].call = d /\ FaultFree(frames[p]) /\ ReturnsValue(frames[p])

\* the values the invocations of the function have produced
Produced ==
    UNION {{log[i].outs[n] : n \in 1..Len(log[i].outs)} : i \in Calls}

\* the calls that completed a cache.set, and the last of them
Setters == {i \in Calls : log[i].tset # NoInt}

LastSetter == CHOOSE i \in Setters : \A j \in Setters : j <= i

\* C13: when K identical cache-decorated calls interleave, every one returns
\* a value some invocation of the function produced and none raises; each
\* call invokes the function at most once and at least one does, so there
\* are between 1 and K invocations; and the item in the table holds the
\* value of the last cache.set made
C13_ConcurrentIdenticalCalls ==
    RaceOfReads(GetData(<<One>>, <<>>)) =>
        /\ \A i \in Calls :
            /\ log[i].raised = "no"
            /\ log[i].ret \in Produced
            /\ Len(log[i].outs) <= 1
        /\ \E i \in Calls : Len(log[i].outs) = 1
        /\ \A n \in 1..Len(cache) :
            /\ Setters # {}
            /\ cache[n].key = log[LastSetter].key
            /\ cache[n].value = log[LastSetter].ret
        /\ (\A p \in Tasks : ~Active(p)) => Len(cache) = 1

C13_Witness ==
    /\ RaceOfReads(GetData(<<One>>, <<>>))
    /\ \A p \in Tasks : ~Active(p)
    /\ now = 0
    /\ log[1].read = "miss" /\ log[2].read = "miss"
    /\ log[1].ret = "v1" /\ log[2].ret = "v2"
    /\ Len(cache) = 1 /\ cache[1].value = "v2"


\* the same function name and the same arguments, passed the same way
SameArguments(d, e) == d.func = e.func /\ d.args = e.args /\ d.kwargs = e.kwargs

\* an earlier call with the function name and arguments of log[j] stored
\* the item that log[j] was served
ServedOwnItem(j) ==
    \E i \in 1..(j - 1) :
        /\ IsCached(log[i]) /\ log[i].tset # NoInt
        /\ SameArguments(log[i].call, log[j].call)
        /\ log[i].ret = log[j].ret

\* C14: two cache-decorated calls that differ in the function name or in the
\* arguments have different keys, and a call served from the cache is served
\* an item that a call with its own function name and arguments stored
C14_KeySeparation ==
    /\ \A i, j \in Calls :
        /\ IsCached(log[i]) /\ IsCached(log[j])
        /\ Initialised(log[i].call) /\ Initialised(log[j].call)
        /\ ~SameArguments(log[i].call, log[j].call)
        => log[i].key # log[j].key
    /\ \A j \in Calls : IsCached(log[j]) /\ log[j].read = "hit" => ServedOwnItem(j)

C14_Witness ==
    /\ Len(log) = 2
    /\ log[1].call = GetData(<<One>>, <<>>) /\ log[1].tset # NoInt
    /\ log[2].call = GetData(<<OneStr>>, <<>>)
    /\ log[2].read = "miss" /\ log[2].tset # NoInt
    /\ log[2].tget < log[1].exp[1]
    /\ Len(cache) = 2


\* the keys that test_key_builder and Python's str() of tuples and dicts
\* give for the calls d: 'name:(args):{kwargs}', written out
ExpectedKey(d, k) ==
    /\ d = GetData(<<A, A, A>>, <<>>) =>
        k = <<"g", "e", "t", ":", "(", "'", "a", "'", ",", " ", "'", "a", "'", ",", " ", "'", "a", "'", ")", ":", "{", "}">>
    /\ d = GetData(<<A>>, <<<<key, A>>>>) =>
        k = <<"g", "e", "t", ":", "(", "'", "a", "'", ",", ")", ":", "{", "'", "k", "'", ":", " ", "'", "a", "'", "}">>
    /\ d = GetData(<<A, A>>, <<>>) =>
        k = <<"g", "e", "t", ":", "(", "'", "a", "'", ",", " ", "'", "a", "'", ")", ":", "{", "}">>
    /\ d = GetData(<<One>>, <<>>) =>
        k = <<"g", "e", "t", ":", "(", "1", ",", ")", ":", "{", "}">>
    /\ d = GetData(<<One, Two>>, <<>>) =>
        k = <<"g", "e", "t", ":", "(", "1", ",", " ", "2", ")", ":", "{", "}">>
    /\ d = GetData(<<>>, <<<<key, One>>>>) =>
        k = <<"g", "e", "t", ":", "(", ")", ":", "{", "'", "k", "'", ":", " ", "1", "}">>
    /\ d = GetDatax(<<One>>, <<>>) =>
        k = <<"g", "e", "t", "x", ":", "(", "1", ",", ")", ":", "{", "}">>

\* k is name, ':', a parenthesised part, ':', a braced part
KeyShape(d, k) ==
    LET n == Len(d.func)
    IN  /\ Len(k) >= n + 6
        /\ SubSeq(k, 1, n + 2) = d.func \o <<":", "(">>
        /\ k[Len(k)] = "}"
        /\ d.kwargs = <<>> => SubSeq(k, Len(k) - 3, Len(k)) = <<")", ":", "{", "}">>

\* C15: the key of a cache-decorated call is the function name, ':', the
\* tuple rendering of the positional arguments, ':', and the brace rendering
\* of the keyword arguments, '{}' when there are none; calls with equal
\* inputs have equal keys; and every key in the table begins with the name
\* of the function whose call stored it, followed by ':'
C15_KeyFormat ==
    /\ \A i \in Calls : IsCached(log[i]) /\ Initialised(log[i].call) =>
        /\ ExpectedKey(log[i].call, log[i].key)
        /\ KeyShape(log[i].call, log[i].key)
    /\ \A i, j \in Calls :
        IsCached(log[i]) /\ SameArguments(log[i].call, log[j].call) =>
            log[i].key = log[j].key
    /\ \A n \in 1..Len(cache) : \E i \in Calls :
        /\ log[i].tset # NoInt /\ log[i].key = cache[n].key
        /\ KeyShape(log[i].call, cache[n].key)

C15_Witness ==
    /\ Len(log) = 3 /\ Len(cache) = 3
    /\ \A i \in 1..3 : log[i].call = KeyBuilderScript[i] /\ cache[i].key = log[i].key
    /\ cache[2].key = <<"g", "e", "t", ":", "(", "'", "a", "'", ",", ")", ":", "{", "'", "k", "'", ":", " ", "'", "a", "'", "}">>


C17_CacheForever ==
    \A i, j \in Calls :
        /\ WrittenThenRead(i, j)
        /\ IsMethod(log[i].call) /\ log[i].call.ttl = NoInt
        => log[j].read = "hit" /\ log[j].outs = <<>>


\* the item a call of get_data(key) or update_data(key) is about: the value
\* of its parameter key, passed positionally or by keyword
ItemOf(d) == IF Len(d.args) > 0 THEN d.args[1] ELSE KwValue(d.kwargs, key)

\* log[i] is a cached read of an item, log[i + 1] a completed update of that
\* item wrapped by invalidate on the read function with a mapping on key,
\* log[i + 2] the same read again; no backend fault
ReadUpdateRead(i) ==
    /\ i + 2 \in Calls
    /\ IsCached(log[i]) /\ ~IsMethod(log[i].call)
    /\ log[i].read = "hit" \/ log[i].tset # NoInt
    /\ IsInvalidation(log[i + 1]) /\ log[i + 1].raised = "no"
    /\ log[i + 1].call.invs = <<Invalidation(log[i].call.func, <<<<key, key>>>>)>>
    /\ ItemOf(log[i + 1].call) = ItemOf(log[i].call)
    /\ log[i + 2].call = log[i].call
    /\ \A n \in i..(i + 2) : FaultFree(log[n])

\* C18 as stated: after a cached read of an item and a completed
\* invalidating update of that item, the next read of the item invokes the
\* function again and returns what it now gives, never the cached value
C18_ReadYourUpdate ==
    \A i \in Calls : ReadUpdateRead(i) =>
        /\ log[i + 2].read = "miss"
        /\ Len(log[i + 2].outs) >= 1
        /\ log[i + 2].outs[1] \in Values => log[i + 2].ret = log[i + 2].outs[1]


\* the keys in the table that the invalidate decorator at level l of the
\* call of frame f matches
MatchedBy(f, l) ==
    LET inv == f.call.invs[l]
    IN  cache_get_keys(cache, InvalidationPattern(inv.target, inv.mapping, f.call.kwargs))

\* C19: a call of a method with stacked invalidate decorators enumerates
\* and deletes for each decorator in turn, the outermost first, each with
\* its own pattern; the method body has not run while a decorator is still
\* at work; when the body is about to run no entry that any of the
\* decorators matches is in the table; and the body runs exactly once
C19_StackedInvalidations ==
    /\ \A p \in Tasks :
        LET f == frames[p]
        IN  f.kind = "invalidate" /\ FaultFree(f) =>
            /\ f.pc \in {"enum", "del"} =>
                /\ f.outs = <<>>
                /\ Len(f.matched) = (IF f.pc = "enum" THEN f.level - 1 ELSE f.level)
                /\ \A l \in 1..(f.level - 1) : MatchedBy(f, l) = <<>>
            /\ f.pc = "body" =>
                /\ f.outs = <<>>
                /\ Len(f.matched) = Len(f.call.invs)
                /\ \A l \in 1..Len(f.call.invs) :
                    /\ MatchedBy(f, l) = <<>>
                    /\ f.deleted[l] = f.matched[l]
    /\ \A i \in Calls : IsInvalidation(log[i]) /\ FaultFree(log[i]) =>
        /\ Len(log[i].outs) = 1
        /\ Len(log[i].matched) = Len(log[i].call.invs)

C19_Witness ==
    /\ AtBody(frames[1])
    /\ frames[1].call = UpdateUser(<<service, One>>, <<>>)
    /\ frames[1].matched = <<<<key_builder(get_data, <<service, One>>, <<>>)>>,
                              <<key_builder(get_datax, <<service, One>>, <<>>)>>>>
    /\ frames[1].deleted = frames[1].matched
    /\ cache = <<>>


\* log[i] and log[i + 1] are calls of one method with the same arguments on
\* two initialised objects; the first left its result in the table and the
\* second is made before that item expires; no backend fault
CrossInstancePair(i) ==
    /\ i + 1 \in Calls
    /\ IsCached(log[i]) /\ IsCached(log[i + 1])
    /\ IsMethod(log[i].call) /\ IsMethod(log[i + 1].call)
    /\ Initialised(log[i].call) /\ Initialised(log[i + 1].call)
    /\ log[i].call.args[1] # log[i + 1].call.args[1]
    /\ log[i + 1].call = [log[i].call EXCEPT !.args[1] = log[i + 1].call.args[1]]
    /\ FaultFree(log[i]) /\ FaultFree(log[i + 1])
    /\ log[i].tset # NoInt
    /\ log[i + 1].tget < log[i].exp[1]

\* C20 as stated: an entry cached through one service object is served to a
\* second object of the class that calls the same method with the same
\* arguments: the method is not invoked
C20_SharedAcrossInstances ==
    \A i \in Calls : CrossInstancePair(i) =>
        /\ log[i + 1].read = "hit"
        /\ log[i + 1].outs = <<>>
        /\ log[i + 1].ret = log[i].ret

(***************************************************************************)
(* Properties of the backend used directly (SpecStore).                    *)
(***************************************************************************)
Ops == 1..Len(log)

IsOp(i, op) == log[i].call.op = op

\* log[j] asks about the key k
Asks(j, k) ==
    \/ log[j].call.op \in {"get", "exists"} /\ log[j].call.key = k
    \/ /\ log[j].call.op \in {"get_keys", "get_keys_regex"}
       /\ log[j].call.pattern # NoPattern => ReMatch(log[j].call.pattern[1], k)

\* log[j] reports the key k present, with the value stored by log[i]
Reports(j, i) ==
    LET k == log[i].call.key
    IN  /\ IsOp(j, "get") => log[j].result = log[i].call.value
        /\ IsOp(j, "exists") => log[j].result = TRUE
        /\ log[j].call.op \in {"get_keys", "get_keys_regex"}
              => \E n \in 1..Len(log[j].result) : log[j].result[n] = k

\* log[j] reports the key k absent
ReportsAbsent(j, k) ==
    /\ IsOp(j, "get") => log[j].result = None
    /\ IsOp(j, "exists") => log[j].result = FALSE
    /\ log[j].call.op \in {"get_keys", "get_keys_regex"}
          => \A n \in 1..Len(log[j].result) : log[j].result[n] # k

\* log[i] set a key that nothing has set again, deleted or cleared by log[j]
StillSet(i, j) ==
    /\ i < j
    /\ IsOp(i, "set")
    /\ \A m \in (i + 1)..(j - 1) :
          /\ ~IsOp(m, "clear")
          /\ log[m].call.op \in {"set", "delete"}
                => log[m].call.key # log[i].call.key

\* the item set by log[i] has not expired at the time of log[j]
Unexpired(i, j) ==
    log[i].call.ttl = NoInt \/ log[j].t < log[i].t + log[i].call.ttl[1]

\* C21: every construction of InMemoryCache yields the same object and
\* table: a construction after the first leaves the entries as they were,
\* and an unexpired entry set through one handle is reported by get, exists
\* and get_keys made through any other handle.
C21_SingletonStore ==
    /\ \A i, j \in Ops :
          IsOp(i, "new") /\ IsOp(j, "new") => log[i].result = log[j].result
    /\ \A i, j \in Ops :
          i < j /\ IsOp(i, "new") /\ IsOp(j, "new") => log[j].post = log[j].pre
    /\ \A i, j \in Ops :
          /\ StillSet(i, j) /\ Unexpired(i, j)
          /\ Asks(j, log[i].call.key)
          /\ log[j].call.h # log[i].call.h
          => Reports(j, i)

\* an entry was set through the first handle, a second handle was
\* constructed afterwards, and get through the second returned the value
C21_Witness ==
    \E i, n, j \in Ops :
        /\ i < n /\ n < j
        /\ StillSet(i, j)
        /\ IsOp(n, "new") /\ log[n].pre # <<>> /\ log[n].post = log[n].pre
        /\ IsOp(j, "get") /\ log[j].call.h = 2 /\ log[i].call.h = 1
        /\ log[j].result = "v1"

\* C22: an expired entry is logically absent: once the time has reached
\* the expiry of an entry, get returns None for its key, exists answers
\* False, and get_keys and get_keys_regex do not list the key.
C22_ExpiredAbsent ==
    \A i, j \in Ops :
        /\ StillSet(i, j) /\ ~Unexpired(i, j)
        /\ Asks(j, log[i].call.key)
        => ReportsAbsent(j, log[i].call.key)

\* the table after log[i] holds exactly one item under k, and it is item
Holds(i, k, item) ==
    \E n \in 1..Len(log[i].post) :
        /\ log[i].post[n] = item
        /\ \A m \in 1..Len(log[i].post) : log[i].post[m].key = k => m = n

\* C23: an entry set with ttl None never expires: at every later time get
\* returns its value and exists answers True, until the key is deleted,
\* cleared or set again.  A set replaces the value and the expiry of the
\* entry under the key: afterwards get returns the new value until the new
\* expiry, and None from then on.
C23_NoTtlNeverExpires ==
    /\ \A i, j \in Ops :
          /\ StillSet(i, j) /\ log[i].call.ttl = NoInt
          /\ log[j].call.op \in {"get", "exists"}
          /\ log[j].call.key = log[i].call.key
          => Reports(j, i)
    /\ \A i \in Ops :
          IsOp(i, "set")
          => Holds(i, log[i].call.key,
                   CacheItem(log[i].call.key, log[i].call.value,
                             IF log[i].call.ttl = NoInt THEN NoInt
                             ELSE <<log[i].t + log[i].call.ttl[1]>>))
    /\ \A i, j \in Ops :
          StillSet(i, j) /\ IsOp(j, "get") /\ log[j].call.key = log[i].call.key
          => log[j].result =
                IF Unexpired(i, j) THEN log[i].call.value ELSE None

\* an entry set with ttl None was read at a later time, then set again with
\* a ttl, and the read after the new expiry found nothing
C23_Witness ==
    \E i, j, m, n \in Ops :
        /\ i < j /\ j < m /\ m < n
        /\ StillSet(i, j) /\ log[i].call.ttl = NoInt
        /\ IsOp(j, "get") /\ log[j].result = "v1" /\ log[j].t > log[i].t
        /\ StillSet(m, n) /\ log[m].call.key = log[i].call.key
        /\ log[m].call.ttl # NoInt
        /\ IsOp(n, "get") /\ log[n].call.key = log[i].call.key
        /\ log[n].result = None

(***************************************************************************)
(* Properties of the decorators, continued (SpecSeq, Spec).                *)
(***************************************************************************)
\* this step completes a cached call that was served from the cache
HitStep ==
    /\ Len(log') = Len(log) + 1
    /\ IsCached(log'[Len(log')]) /\ log'[Len(log')].read = "hit"

\* C24: a hit has no side effect.  The step that serves a call from the
\* cache leaves the table as it was, the call makes no cache.set and does not
\* invoke the function, and the item it read keeps the value and the expiry
\* its writer gave it; so an identical call at or after that expiry misses,
\* however many hits came in between.
C24_HitHasNoEffect ==
    /\ [][HitStep => cache' = cache]_vars
    /\ [](\A i, j \in Calls :
            WrittenThenRead(i, j) /\ log[j].read = "hit"
            => /\ log[j].sets = 0 /\ log[j].outs = <<>>
               /\ log[j].ret = log[i].ret
               /\ log[j].exp = log[i].exp)
    /\ [](\A i, k \in Calls :
            /\ WrittenThenRead(i, k)
            /\ log[k].tget >= log[i].tset[1] + log[i].ttl[1]
            => log[k].read = "miss")

\* an item written with a TTL of two seconds was served one second later,
\* and the identical call two seconds after the write missed
C24_Witness ==
    \E i, j, k \in Calls :
        /\ WrittenThenRead(i, j) /\ WrittenThenRead(i, k) /\ j < k
        /\ log[i].ttl = <<2>>
        /\ log[j].read = "hit" /\ log[j].tget = log[i].tset[1] + 1
        /\ log[k].read = "miss" /\ log[k].tget = log[i].tset[1] + 2

\* the keys the invalidation e deleted, over all its decorators
DeletedBy(e) ==
    UNION {{e.deleted[l][n] : n \in 1..Len(e.deleted[l])} :
              l \in 1..Len(e.deleted)}

\* log[i] left an entry built from a call that passed tp = v by keyword;
\* log[j] is a later call wrapped by invalidate on that function with the
\* one mapping tp: sp, passing sp = v by keyword, the entry then in the table
MappedPair(i, j, tp, sp) ==
    /\ i < j
    /\ IsCached(log[i]) /\ log[i].tset # NoInt
    /\ HasKw(log[i].call.kwargs, tp)
    /\ IsInvalidation(log[j]) /\ FaultFree(log[j])
    /\ log[j].call.invs = <<Invalidation(log[i].call.func, <<<<tp, sp>>>>)>>
    /\ HasKw(log[j].call.kwargs, sp)
    /\ KwValue(log[j].call.kwargs, sp) = KwValue(log[i].call.kwargs, tp)
    /\ log[i].key \in log[j].pre

\* C25: an entry built from a call that passed target_param = v by keyword
\* is deleted by an invalidation mapped on target_param whose call passes
\* source_param = v by keyword, whether v is an integer or a string
C25_MappedMatchesRendered ==
    \A i, j \in Calls : MappedPair(i, j, key, key) => log[i].key \in DeletedBy(log[j])

\* log[i] left an entry built from a call that passed key and param2 by
\* keyword; log[j] is a later call wrapped by invalidate on that function
\* with a mapping of both parameters, passing the same two values by
\* keyword, the entry then in the table
TwoMappedPair(i, j) ==
    /\ i < j
    /\ IsCached(log[i]) /\ log[i].tset # NoInt
    /\ IsInvalidation(log[j]) /\ FaultFree(log[j])
    /\ Len(log[j].call.invs) = 1
    /\ log[j].call.invs[1].target = log[i].call.func
    /\ log[j].call.invs[1].mapping
          \in {<<<<key, key>>, <<param2, param2>>>>,
               <<<<param2, param2>>, <<key, key>>>>}
    /\ \A n \in {key, param2} :
          /\ HasKw(log[i].call.kwargs, n) /\ HasKw(log[j].call.kwargs, n)
          /\ KwValue(log[j].call.kwargs, n) = KwValue(log[i].call.kwargs, n)
    /\ log[i].key \in log[j].pre

\* C26: with two mapped parameters passed by keyword, the invalidation
\* deletes the entry built from the same two values whatever the order of
\* the keywords in the cached call, in the invalidating call and in
\* param_mapping
C26_OrderIndependent ==
    \A i, j \in Calls : TwoMappedPair(i, j) => log[i].key \in DeletedBy(log[j])

\* log[j] is a completed call wrapped by invalidate(target, {key: key})
\* alone, which passed a string for key by keyword; no backend fault
SelectiveInvalidation(j) ==
    /\ IsInvalidation(log[j]) /\ FaultFree(log[j])
    /\ Len(log[j].call.invs) = 1
    /\ log[j].call.invs[1].mapping = <<<<key, key>>>>
    /\ HasKw(log[j].call.kwargs, key)
    /\ KwValue(log[j].call.kwargs, key).t = "str"

\* the keys in the table when log[j] started that were built for its target
\* function from a call passing key by keyword with the value log[j] passes
Selected(j) ==
    {log[i].key : i \in {n \in 1..(j - 1) :
        /\ IsCached(log[n])
        /\ log[n].call.func = log[j].call.invs[1].target
        /\ HasKw(log[n].call.kwargs, key)
        /\ KwValue(log[n].call.kwargs, key) = KwValue(log[j].call.kwargs, key)}}
      \cap log[j].pre

\* C27: a selective invalidation whose mapped parameter is passed by
\* keyword with a string value v deletes only keys of the target function
\* whose kwargs segment has the mapped parameter with the value v; the
\* entries of other values and of other functions are in the table when
\* the call has returned
C27_SelectiveInvalidation ==
    \A j \in Calls : SelectiveInvalidation(j) =>
        /\ DeletedBy(log[j]) \subseteq Selected(j)
        /\ (Len(log) = j /\ \A p \in Tasks : ~Active(p))
              => (log[j].pre \ Selected(j)) \subseteq Keys(cache)

\* log[j] is a completed call wrapped by one invalidate decorator with a
\* mapping, none of whose source parameters the call passed by keyword
Unmapped(j) ==
    /\ IsInvalidation(log[j]) /\ FaultFree(log[j])
    /\ Len(log[j].call.invs) = 1
    /\ log[j].call.invs[1].mapping # <<>>
    /\ \A n \in 1..Len(log[j].call.invs[1].mapping) :
          ~HasKw(log[j].call.kwargs, log[j].call.invs[1].mapping[n][2])

\* C29: a mapping none of whose source parameters is among the call's
\* keyword arguments gives the pattern of no mapping at all, and the call
\* deletes every entry of the target function, however it was built
C29_UnmappedIsFull ==
    \A j \in Calls : Unmapped(j) =>
        LET inv == log[j].call.invs[1]
            all == KeysOf(inv.target) \cap log[j].pre
        IN  /\ InvalidationPattern(inv.target, inv.mapping, log[j].call.kwargs)
                  = InvalidationPattern(inv.target, <<>>, log[j].call.kwargs)
            /\ DeletedBy(log[j]) = all
            /\ (Len(log) = j /\ \A p \in Tasks : ~Active(p))
                  => Keys(cache) = log[j].pre \ all

\* test_selective_cache_invalidation: update_data('a') deleted the entry
\* of 'a' and that of key = 'b', and left the other function's entry
C29_Witness ==
    /\ Len(log) = 4 /\ \A p \in Tasks : ~Active(p)
    /\ Unmapped(4) /\ log[4].call = UpdateData(<<A>>, <<>>)
    /\ DeletedBy(log[4]) = {key_builder(get_data, <<A>>, <<>>),
                            key_builder(get_data, <<>>, <<<<key, B>>>>)}
    /\ Keys(cache) = {key_builder(get_datax, <<A>>, <<>>)}

\* log[j] is a completed call wrapped by invalidate with the one mapping
\* key: key, which passed key by keyword; log[i] left an entry of the
\* target function built from a call that passed no keyword key (the
\* parameter went positionally), the entry in the table when log[j] started
PositionalEntry(i, j) ==
    /\ i < j
    /\ IsCached(log[i]) /\ log[i].tset # NoInt
    /\ ~HasKw(log[i].call.kwargs, key) /\ Len(log[i].call.args) > 0
    /\ IsInvalidation(log[j]) /\ FaultFree(log[j])
    /\ log[j].call.invs = <<Invalidation(log[i].call.func, <<<<key, key>>>>)>>
    /\ HasKw(log[j].call.kwargs, key)
    /\ log[i].key \in log[j].pre

\* C30: an entry built from a call that passed the mapped parameter
\* positionally is not deleted by an invalidating call that passes the
\* source parameter by keyword, even with the same value; the identical
\* read that follows, before the entry expires, is a hit
C30_PositionalEntriesEscape ==
    \A i, j \in Calls : PositionalEntry(i, j) =>
        /\ log[i].key \notin DeletedBy(log[j])
        /\ ( /\ j = i + 1 /\ i + 2 \in Calls
             /\ log[i + 2].call = log[i].call
             /\ log[i + 2].tget < log[i].exp[1] )
              => /\ log[i + 2].read = "hit"
                 /\ log[i + 2].outs = <<>>
                 /\ log[i + 2].ret = log[i].ret

\* get_data('a') was stored, update_data(key='a') deleted nothing, and
\* get_data('a') was served from the cache
C30_Witness ==
    /\ Len(log) = 3
    /\ PositionalEntry(1, 2)
    /\ log[1].call.args = <<A>> /\ KwValue(log[2].call.kwargs, key) = A
    /\ DeletedBy(log[2]) = {}
    /\ log[3].call = log[1].call /\ log[3].read = "hit"

(***************************************************************************)
(* Properties of concurrent calls without backend faults (SpecRace).  The  *)
(* log is in order of completion.                                          *)
(***************************************************************************)
\* log[m] is a completed mutation wrapped by invalidate on the function of
\* the read log[r], whose pattern selects the read's key.  The read invoked
\* the function when the mutation had not completed, that is before the
\* body of the mutation ran, and returned a value after the mutation had
\* returned: the value is that of before the mutation.
StaleRead(r, m) ==
    /\ m < r
    /\ IsCached(log[r]) /\ Initialised(log[r].call)
    /\ log[r].read = "miss" /\ Len(log[r].outs) = 1 /\ ReturnsValue(log[r])
    /\ log[r].seen < Invalidations(m)
    /\ IsInvalidation(log[m]) /\ log[m].raised = "no"
    /\ \E l \in 1..Len(log[m].call.invs) :
          ReMatch(InvalidationPattern(log[m].call.invs[l].target,
                                      log[m].call.invs[l].mapping,
                                      log[m].call.kwargs),
                  log[r].key)

\* log[k] is an identical read made at a later time than log[r] wrote its
\* item, so after log[r] returned, and before the item expires, with the
\* item in the table and only hits in between
LaterRead(r, k) ==
    /\ r < k /\ log[k].tget > log[r].tset[1]
    /\ log[k].call = log[r].call
    /\ OnlyHitsBetween(r, k)
    /\ log[r].key \in log[k].pre
    /\ log[k].tget < log[r].exp[1]

\* C28: a read that invoked the function before a concurrent mutation of
\* the item ran, and returned after the mutation had returned, has written
\* the value of before the mutation under the item's key: the mutation's
\* deletion came first and nothing stops the write.  When both have
\* returned the table holds that value, and a later identical read is
\* served it until the item expires or is invalidated again.
C28_StaleRepopulation ==
    \A r, m \in Calls : StaleRead(r, m) =>
        /\ log[r].sets = 1 /\ log[r].tset # NoInt
        /\ log[r].ret = log[r].outs[1]
        /\ (Len(log) = r /\ \A p \in Tasks : ~Active(p))
              => \E n \in 1..Len(cache) :
                    /\ cache[n].key = log[r].key
                    /\ cache[n].value = log[r].outs[1]
        /\ \A k \in Calls : LaterRead(r, k) =>
              /\ log[k].read = "hit"
              /\ log[k].outs = <<>>
              /\ log[k].ret = log[r].outs[1]

\* the mutation and the read have both returned, the read having invoked
\* the function first and written last; a third call, the same read, was
\* then served the value of before the mutation
C28_Witness ==
    /\ Len(log) = 3 /\ \A p \in Tasks : ~Active(p)
    /\ StaleRead(2, 1)
    /\ log[1].call = UpdateUser(<<A>>, <<>>)
    /\ log[2].seen = 0
    /\ LaterRead(2, 3)
    /\ log[3].read = "hit" /\ log[3].ret = log[2].outs[1]
    /\ \E n \in 1..Len(cache) : cache[n].value = log[2].outs[1]

(***************************************************************************)
(* Properties of the decorators, continued (SpecSeq).                      *)
(***************************************************************************)
\* log[i] is a completed cached call of a method on an initialised object
MethodRead(i) ==
    IsCached(log[i]) /\ IsMethod(log[i].call) /\ Initialised(log[i].call)

\* the text of the key of log[i] where the first positional argument stands
SelfInKey(i) ==
    LET from == Len(log[i].call.func) + 3
        to == Len(log[i].call.func) + 2 + Len(Str(log[i].call.args[1]))
    IN  IF to <= Len(log[i].key) THEN SubSeq(log[i].key, from, to) ELSE <<>>

OtherInstanceEntry(i, j) ==
    /\ i < j
    /\ MethodRead(i) /\ log[i].tset # NoInt
    /\ IsInvalidation(log[j]) /\ IsMethod(log[j].call) /\ FaultFree(log[j])
    /\ Len(log[j].call.invs) = 1
    /\ log[j].call.invs[1].target = log[i].call.func
    /\ log[j].call.args[1] # log[i].call.args[1]
    /\ log[i].key \in log[j].pre

\* the key log[i] would have had on the object log[j] was called on
KeyOnInvoker(i, j) ==
    key_builder(log[i].call.func,
                <<log[j].call.args[1]>> \o Tail(log[i].call.args),
                log[i].call.kwargs)

\* C32: an invalidating call made on one object deletes the entry that a
\* call on another object stored exactly when it would delete the entry of
\* the same call on its own object: the pattern takes any positional
\* segment, the object's rendering included
C32_InvalidationCrossesInstances ==
    \A i, j \in Calls : OtherInstanceEntry(i, j) =>
        LET inv == log[j].call.invs[1]
            pattern == InvalidationPattern(inv.target, inv.mapping,
                                           log[j].call.kwargs)
        IN  log[i].key \in DeletedBy(log[j])
                <=> ReMatch(pattern, KeyOnInvoker(i, j))

\* get_data(key='a') was stored through two objects; update_data(key='a')
\* on the first deleted both entries
C32_Witness ==
    /\ Len(log) = 3 /\ \A p \in Tasks : ~Active(p)
    /\ OtherInstanceEntry(2, 3)
    /\ log[3].call.args[1] = service /\ log[2].call.args[1] = service2
    /\ DeletedBy(log[3]) = {log[1].key, log[2].key}
    /\ log[1].key # log[2].key
    /\ cache = <<>>

(***************************************************************************)
(* Properties of the wrappers over a failing backend (Spec).               *)
(***************************************************************************)
\* the read of e missed, the function returned a value and cache.set raised
WriteFailed(e) ==
    /\ IsCached(e) /\ e.read = "miss"
    /\ e.sets = 1 /\ e.bfail = 1 /\ e.tset = NoInt

\* C33: when the read misses, the function returns a non-null result and
\* cache.set raises, the function is invoked a second time and the caller
\* gets what the second invocation gave; the function ran exactly twice and
\* the caller does not see the backend's error
C33_WriteErrorReruns ==
    \A i \in Calls : WriteFailed(log[i]) =>
        /\ Len(log[i].outs) = 2
        /\ log[i].outs[1] \in Values
        /\ log[i].raised # "backend"
        /\ IF log[i].outs[2] = Raise
           THEN log[i].raised = "op"
           ELSE log[i].raised = "no" /\ log[i].ret = log[i].outs[2]

C33_Witness ==
    \E i \in Calls :
        /\ WriteFailed(log[i])
        /\ log[i].outs = <<"v1", "v2">>
        /\ log[i].ret = "v2" /\ log[i].raised = "no"
        /\ log[i].key \notin Keys(cache)

\* a completed call that went through the cache wrapper
Wrapped(e) == IsCached(e) /\ Initialised(e.call)

\* C34: a call through the cache wrapper invokes the function at most
\* twice; not at all exactly when cache.get returned a value; and twice
\* only when the first invocation raised or the cache.set after it raised
C34_BoundedInvocations ==
    \A i \in Calls : Wrapped(log[i]) =>
        /\ Len(log[i].outs) <= 2
        /\ Len(log[i].outs) = 0 <=> log[i].read = "hit"
        /\ Len(log[i].outs) = 2 =>
              \/ log[i].outs[1] = Raise
              \/ log[i].sets = 1 /\ log[i].tset = NoInt /\ log[i].bfail > 0

\* one call invoked the function twice, its first invocation having raised;
\* another, whose cache.get raised, invoked it once
C34_Witness ==
    \E i, j \in Calls :
        /\ Wrapped(log[i]) /\ Wrapped(log[j])
        /\ log[i].outs = <<Raise, "v1">> /\ log[i].read = "miss"
        /\ log[j].read = "raised" /\ Len(log[j].outs) = 1

\* task p makes one turn of the deletion loop of invalidate
DeleteStep(p) ==
    /\ frames[p].kind = "invalidate" /\ frames[p].pc = "del"
    /\ frames'[p] # frames[p]

\* and cache.delete raised in it
DeleteRaised(p) == DeleteStep(p) /\ frames'[p].bfail = frames[p].bfail + 1

\* the keys deleted at each level of e are the first of those matched there,
\* in the order get_keys gave them
DeletedInOrder(e) ==
    \A l \in 1..Len(e.matched) :
        /\ Len(e.deleted[l]) <= Len(e.matched[l])
        /\ e.deleted[l] = SubSeq(e.matched[l], 1, Len(e.deleted[l]))

\* C35: invalidate deletes the matched keys one per step in the order of
\* the enumeration; a step in which cache.delete raises removes nothing and
\* ends the loop, so the keys deleted before it stay deleted and that key
\* and those after it are left in the table; the caller does not see the
\* error and the wrapped function is still invoked
C35_InvalidationNotAtomic ==
    /\ [][\A p \in Tasks : DeleteStep(p) =>
            IF DeleteRaised(p)
            THEN /\ cache' = cache
                 /\ frames'[p].deleted = frames[p].deleted
                 /\ frames'[p].keys = <<>>
                 /\ frames'[p].pc \in {"enum", "body"}
            ELSE /\ Keys(cache') = Keys(cache) \ {Head(frames[p].keys)}
                 /\ frames'[p].deleted[frames[p].level]
                        = Append(frames[p].deleted[frames[p].level],
                                 Head(frames[p].keys))]_vars
    /\ [](\A p \in Tasks : frames[p].kind = "invalidate" => DeletedInOrder(frames[p]))
    /\ [](\A i \in Calls : IsInvalidation(log[i]) =>
            /\ DeletedInOrder(log[i])
            /\ log[i].raised # "backend"
            /\ Len(log[i].outs) = 1)

\* invalidator matched the two entries of get_data; the first was deleted,
\* cache.delete raised on the second, which is still in the table, and
\* invalidator's body ran and returned
C35_Witness ==
    /\ Len(log) = 3 /\ log[3].call = Invalidator
    /\ Len(log[3].matched[1]) = 2
    /\ log[3].deleted[1] = <<log[3].matched[1][1]>>
    /\ log[3].bfail = 1 /\ log[3].bok = 2
    /\ log[3].outs = <<"v1">> /\ log[3].ret = "v1" /\ log[3].raised = "no"
    /\ Keys(cache) = {log[3].matched[1][2]}

\* a completed call that went through the wrapper of invalidate or of
\* invalidate_all
Mutation(e) == e.kind \in {"invalidate", "invalidate_all"} /\ Initialised(e.call)

\* task p returns from, or raises out of, the method wrapped by invalidate
\* or invalidate_all
BodyStep(p) ==
    /\ frames[p].kind \in {"invalidate", "invalidate_all"}
    /\ frames[p].pc = "body"
    /\ frames'[p] # frames[p]

\* C36: when the method wrapped by invalidate or invalidate_all raises, the
\* caller gets its error, the method was invoked exactly once, and the step
\* in which it raised left the table as the deletions or the clearing made
\* before it had left it: nothing is put back, and the call ends there
C36_NoRollbackNoRetry ==
    /\ [][\A p \in Tasks : BodyStep(p) =>
            /\ cache' = cache
            /\ Len(log') = Len(log) + 1 /\ ~Active(p)']_vars
    /\ [](\A i \in Calls : Mutation(log[i]) =>
            /\ Len(log[i].outs) = 1
            /\ log[i].outs[1] = Raise <=> log[i].raised = "op"
            /\ log[i].raised \in {"op", "no"})

\* invalidator deleted the two entries of get_data, then its body raised:
\* the caller got the error, the body ran once and the table is empty
C36_Witness ==
    /\ Len(log) = 3 /\ log[3].call = Invalidator
    /\ Mutation(log[3])
    /\ Len(log[3].deleted[1]) = 2 /\ log[3].bfail = 0
    /\ log[3].outs = <<Raise>> /\ log[3].raised = "op"
    /\ cache = <<>>

(***************************************************************************)
(* Properties of the backend, continued (SpecStore).                       *)
(***************************************************************************)
StartsWith(k, prefix) ==
    Len(prefix) <= Len(k) /\ SubSeq(k, 1, Len(prefix)) = prefix

\* the keys in the sequence r
Listed(r) == {r[n] : n \in 1..Len(r)}

\* C37 as stated: get_keys_regex(target_func_name, pattern) returns only
\* keys that begin with target_func_name: all of those in the table when no
\* pattern is given, and those of them that match the pattern otherwise
C37_PrefixScoped ==
    \A j \in Ops : IsOp(j, "get_keys_regex") =>
        LET prefix == log[j].call.key
            pattern == log[j].call.pattern
        IN  Listed(log[j].result) =
                {k \in Keys(log[j].pre) :
                    /\ StartsWith(k, prefix)
                    /\ pattern # NoPattern => ReMatch(pattern[1], k)}

(***************************************************************************)
(* Properties of the decorators, continued (SpecSeq).                      *)
(***************************************************************************)
\* the keyword arguments of e are those of d, supplied in another order
Reordered(d, e) ==
    /\ d.args = e.args
    /\ Len(d.kwargs) = Len(e.kwargs)
    /\ {d.kwargs[n] : n \in 1..Len(d.kwargs)} = {e.kwargs[n] : n \in 1..Len(e.kwargs)}
    /\ d.kwargs # e.kwargs

\* d passes one value positionally and e passes it as the keyword key
PositionalThenKeyword(d, e) ==
    /\ Len(d.args) = 1 /\ d.kwargs = <<>>
    /\ e.args = <<>> /\ e.kwargs = <<<<key, d.args[1]>>>>

\* two calls of one function with the same values, passed another way
StyleDiffers(d, e) ==
    /\ d.func = e.func
    /\ \/ Reordered(d, e)
       \/ PositionalThenKeyword(d, e)
       \/ PositionalThenKeyword(e, d)

\* log[i + 1] follows log[i] with the same values passed another way, the
\* item log[i] stored unexpired, and its function returns a value
RestyledPair(i) ==
    /\ i + 1 \in Calls
    /\ IsCached(log[i]) /\ IsCached(log[i + 1])
    /\ StyleDiffers(log[i].call, log[i + 1].call)
    /\ log[i].tset # NoInt /\ log[i + 1].tget < log[i].exp[1]
    /\ ReturnsValue(log[i + 1])

\* str() of the two orders of the keywords key='a', param2='b'
KeyFirstText ==
    <<"g", "e", "t", ":", "(", ")", ":", "{", "'", "k", "'", ":", " ", "'", "a", "'",
      ",", " ", "'", "p", "'", ":", " ", "'", "b", "'", "}">>
Param2FirstText ==
    <<"g", "e", "t", ":", "(", ")", ":", "{", "'", "p", "'", ":", " ", "'", "b", "'",
      ",", " ", "'", "k", "'", ":", " ", "'", "a", "'", "}">>

FalsyPair(i) ==
    /\ i + 1 \in Calls
    /\ Wrapped(log[i]) /\ log[i + 1].call = log[i].call
    /\ log[i].raised = "no" /\ log[i].ret \in Falsy
    /\ log[i].tset # NoInt \/ log[i].read = "hit"
    /\ log[i + 1].tget < log[i].exp[1]

\* C39: a call that misses and whose function returns without raising
\* stores the result exactly when it is not None, whatever its truth value:
\* 0, False, '' and [] are stored, and the next identical call, made before
\* the item expires, is served that result without invoking the function
C39_OnlyNoneAbsent ==
    /\ \A i \in Calls :
          /\ Wrapped(log[i]) /\ log[i].read = "miss"
          /\ Len(log[i].outs) = 1 /\ log[i].outs[1] # Raise
          => /\ log[i].tset # NoInt <=> log[i].outs[1] # None
             /\ log[i].ret = log[i].outs[1]
    /\ \A i \in Calls : FalsyPair(i) =>
          /\ log[i + 1].read = "hit"
          /\ log[i + 1].outs = <<>>
          /\ log[i + 1].ret = log[i].ret

\* the function returned [] once; the second call was served [] from the
\* table and the third, after the item expired, returned None, not stored
C39_Witness ==
    /\ Len(log) = 3
    /\ log[1].read = "miss" /\ log[1].outs = <<EmptyList>> /\ log[1].tset # NoInt
    /\ FalsyPair(1)
    /\ log[2].read = "hit" /\ log[2].outs = <<>> /\ log[2].ret = EmptyList
    /\ log[3].read = "miss" /\ log[3].outs = <<None>> /\ log[3].tset = NoInt

====
